---- MODULE Spec2Model ----
(***************************************************************************)
(* A model of the deterministic logic of OpenCodeUI:                       *)
(*   - the diff viewer (src/components/DiffModal.tsx): computePairedLines, *)
(*     computeUnifiedLines, computeWordDiff, escapeHtml;                   *)
(*   - the smooth streaming hook (src/hooks/useSmoothStream.ts);           *)
(*   - the keybinding store, its settings row and the global key handler   *)
(*     (src/store/keybindingStore.ts, KeybindingsSection.tsx,              *)
(*     src/hooks/useKeybindings.ts);                                       *)
(*   - the layout store and its snapshot cache (src/store/layoutStore.ts). *)
(* Texts are sequences of one-character strings.                           *)
(***************************************************************************)
EXTENDS Integers, Sequences, FiniteSets, TLC

VARIABLES
    \* ---- diff viewer: one call of computePairedLines / computeUnifiedLines
    before,        \* argument `before`
    after,         \* argument `after`
    changes,       \* const changes = diffLines(before, after)
    fn,            \* which function is running: "paired" | "unified" | "none"
    loop,          \* the loop's locals: [i, oldIdx, newIdx, result]
    pc,            \* "run" while in the loop, "done" once it has returned
    lastBranch,    \* the branch the last loop iteration took
    \* ---- word-level highlighter: one call of computeWordDiff
    oldLine,       \* argument `oldLine`
    newLine,       \* argument `newLine`
    wordChanges,   \* const changes = diffWords(oldLine, newLine)
    wordOut,       \* the returned { left, right }
    wordPc,        \* "call" before the call, "done" after, "none" when unused
    \* ---- useSmoothStream: one mounted instance of the hook
    fullText,      \* prop fullText of the latest render
    isStreaming,   \* prop isStreaming of the latest render
    hook,          \* the hook's state and refs, and the host's frame queue
    rendered,      \* what the latest render returned: displayText, isAnimating
    mounted,       \* FALSE once the component is unmounted
    now,           \* the host clock (performance.now(), frame timestamps)
    lastEvent,     \* the handler that ran last and the branches it took
    \* ---- keybinding store, one settings row, the global key handler
    keybindings,   \* KeybindingStore.keybindings, by action
    kbSnapshot,    \* KeybindingStore._snapshot, what getAll() returns
    storage,       \* localStorage item 'opencode-keybindings', or NoItem
    kbRow,         \* the KeybindingRow being edited: isEditing, tempKey, error
    keyEvent,      \* the keydown event handled last
    handlers,      \* the actions the `handlers` argument has a handler for
    invoked,       \* the handlers the last global keydown called, in order
    matched,       \* result of the last matchesKeybinding(e, tempKey)
    keyOp,         \* the operation that ran last on this subsystem
    \* ---- layout store and the module-level snapshot cache
    floatingPanel, \* LayoutStore.floatingPanel, or NoPanel for null
    subscribers,   \* LayoutStore.subscribers, in insertion order
    cachedSnapshot,\* the module-level cachedSnapshot, or NoSnapshot for null
    window,        \* window.innerWidth / innerHeight
    seen,          \* what each listener notified last read from getSnapshot
    lastRead,      \* the object an outside getSnapshot call returned last
    layoutOp       \* the operation that ran last on this subsystem

diffVars == <<before, after, changes, fn, loop, pc, lastBranch>>
wordVars == <<oldLine, newLine, wordChanges, wordOut, wordPc>>
streamVars == <<fullText, isStreaming, hook, rendered, mounted, now, lastEvent>>
keyVars == <<keybindings, kbSnapshot, storage, kbRow, keyEvent, handlers,
             invoked, matched, keyOp>>
layoutVars == <<floatingPanel, subscribers, cachedSnapshot, window, seen,
                lastRead, layoutOp>>
storeVars == <<keyVars, layoutVars>>
vars == <<diffVars, wordVars, streamVars, storeVars>>

(***************************************************************************)
(* Bounds of the model.                                                    *)
(***************************************************************************)
MaxTextLen == 3      \* longest before/after text, in characters
MaxLineLen == 2      \* longest oldLine/newLine given to computeWordDiff
MaxStreamLen == 2    \* longest short fullText
MaxTailLen == 1      \* longest tail of a fullText longer than the reset window
MaxTime == 25        \* the clock stops advancing here
MaxFrameGap == 24    \* the longest time the host lets pass without a frame
MaxRevealLen == 5    \* longest text of the reveal scenario ("hello")
MaxHunks == 2        \* longest hunk list given to the loops directly
MaxHunkCount == 2    \* largest count of such a hunk
MaxHunkLines == 1    \* most lines of the texts such a hunk list goes with

NL == "\n"
DiffAlphabet == {"a", "b", NL}
WordAlphabet == {"a", "&", "<", ">"}

(***************************************************************************)
(* Generic helpers.                                                        *)
(***************************************************************************)
Max(x, y) == IF x >= y THEN x ELSE y
Min(x, y) == IF x <= y THEN x ELSE y

SeqsUpTo(S, n) == UNION {[1..k -> S] : k \in 0..n}

\* String.prototype.startsWith, and the string without its first n characters
StartsWith(s, t) == Len(s) >= Len(t) /\ SubSeq(s, 1, Len(t)) = t
Drop(s, n) == SubSeq(s, n + 1, Len(s))
\* s.slice(0, e) for e >= 0
SliceTo(s, e) == SubSeq(s, 1, Min(e, Len(s)))

RECURSIVE Concat(_)
Concat(ss) == IF ss = <<>> THEN <<>> ELSE Head(ss) \o Concat(Tail(ss))

(***************************************************************************)
(* String.prototype.split('\n'): the pieces between the newlines; always   *)
(* at least one piece, and a text ending in a newline ends in an empty one.*)
(***************************************************************************)
RECURSIVE SplitFrom(_, _)
SplitFrom(s, cur) ==
    IF s = <<>> THEN <<cur>>
    ELSE IF Head(s) = NL THEN <<cur>> \o SplitFrom(Tail(s), <<>>)
    ELSE SplitFrom(Tail(s), Append(cur, Head(s)))

Split(s) == SplitFrom(s, <<>>)

(***************************************************************************)
(* The `diff` package (diffLines, diffWords).  Both return an ordered list *)
(* of change objects {added, removed, count, value}: an edit script over   *)
(* the tokens of the two texts, consecutive tokens of one kind merged into *)
(* one change.  Which of the shortest scripts the package returns is its   *)
(* own choice, so the model takes every one of them.                       *)
(***************************************************************************)

\* diffLines' tokens: each line with its newline; the empty piece after a
\* final newline (and the only piece of the empty text) is no token.
LineTokens(s) ==
    LET pieces == Split(s)
        n == Len(pieces)
        withNl == [k \in 1..(n - 1) |-> Append(pieces[k], NL)]
    IN  IF pieces[n] = <<>> THEN withNl ELSE Append(withNl, pieces[n])

\* diffWords' tokens, taken at the finest granularity: single characters.
WordTokens(s) == [k \in 1..Len(s) |-> <<s[k]>>]

\* Every way to turn token list x into token list y: "=" keeps a common
\* token, "-" removes one of x, "+" adds one of y.
RECURSIVE Alignments(_, _)
Alignments(x, y) ==
    IF x = <<>> /\ y = <<>> THEN {<<>>}
    ELSE (IF x # <<>> THEN {<<"-">> \o r : r \in Alignments(Tail(x), y)} ELSE {})
         \cup (IF y # <<>> THEN {<<"+">> \o r : r \in Alignments(x, Tail(y))} ELSE {})
         \cup (IF x # <<>> /\ y # <<>> /\ Head(x) = Head(y)
               THEN {<<"=">> \o r : r \in Alignments(Tail(x), Tail(y))} ELSE {})

RECURSIVE EditCost(_)
EditCost(script) ==
    IF script = <<>> THEN 0
    ELSE (IF Head(script) = "=" THEN 0 ELSE 1) + EditCost(Tail(script))

ShortestScripts(x, y) ==
    LET all == Alignments(x, y)
    IN  {s \in all : \A t \in all : EditCost(s) <= EditCost(t)}

\* The length of the run of equal operations script starts with.
RECURSIVE RunLength(_)
RunLength(script) ==
    IF Len(script) <= 1 THEN Len(script)
    ELSE IF script[2] = script[1] THEN 1 + RunLength(Tail(script))
    ELSE 1

\* The change objects of a script: one per run.
RECURSIVE ChangeObjects(_, _, _)
ChangeObjects(script, x, y) ==
    IF script = <<>> THEN <<>>
    ELSE LET op == Head(script)
             k == RunLength(script)
             rest == SubSeq(script, k + 1, Len(script))
             src == IF op = "-" THEN x ELSE y
             change == [added |-> op = "+", removed |-> op = "-", count |-> k,
                        value |-> Concat(SubSeq(src, 1, k))]
             x2 == IF op = "+" THEN x ELSE SubSeq(x, k + 1, Len(x))
             y2 == IF op = "-" THEN y ELSE SubSeq(y, k + 1, Len(y))
         IN  <<change>> \o ChangeObjects(rest, x2, y2)

\* The one change some releases of the package return for two texts without
\* any line: unchanged, of no line, count 0.
NoLineChange == [added |-> FALSE, removed |-> FALSE, count |-> 0, value |-> <<>>]

\* The results diffLines(before, after) may return.
diffLines(b, a) ==
    {ChangeObjects(s, LineTokens(b), LineTokens(a)) :
        s \in ShortestScripts(LineTokens(b), LineTokens(a))}
    \cup (IF LineTokens(b) = <<>> /\ LineTokens(a) = <<>> THEN {<<NoLineChange>>} ELSE {})

\* The results diffWords(oldLine, newLine) may return.
diffWords(o, n) ==
    {ChangeObjects(s, WordTokens(o), WordTokens(n)) :
        s \in Alignments(WordTokens(o), WordTokens(n))}

(***************************************************************************)
(* escapeHtml and computeWordDiff.                                         *)
(***************************************************************************)
\* A variant that leaves '<' and '>' as they are.
EscapeChar_KeepsAngles(c) ==
    CASE c = "&" -> <<"&", "a", "m", "p", ";">>
      [] OTHER   -> <<c>>

EscapeChar(c) ==
    CASE c = "&" -> <<"&", "a", "m", "p", ";">>
      [] c = "<" -> <<"&", "l", "t", ";">>
      [] c = ">" -> <<"&", "g", "t", ";">>
      [] OTHER   -> <<c>>

\* str.replace(/&/g,'&amp;').replace(/</g,'&lt;').replace(/>/g,'&gt;'): the
\* first pass introduces no '<' or '>', so the three passes act per character.
escapeHtml(str) == Concat([k \in 1..Len(str) |-> EscapeChar(str[k])])

\* <mark class="bg-danger-100/40 text-inherit rounded-sm px-0.5">
MarkDeleteOpen ==
    <<"<","m","a","r","k"," ","c","l","a","s","s","=","\"",
      "b","g","-","d","a","n","g","e","r","-","1","0","0","/","4","0"," ",
      "t","e","x","t","-","i","n","h","e","r","i","t"," ",
      "r","o","u","n","d","e","d","-","s","m"," ",
      "p","x","-","0",".","5","\"",">">>

\* <mark class="bg-success-100/40 text-inherit rounded-sm px-0.5">
MarkAddOpen ==
    <<"<","m","a","r","k"," ","c","l","a","s","s","=","\"",
      "b","g","-","s","u","c","c","e","s","s","-","1","0","0","/","4","0"," ",
      "t","e","x","t","-","i","n","h","e","r","i","t"," ",
      "r","o","u","n","d","e","d","-","s","m"," ",
      "p","x","-","0",".","5","\"",">">>

\* </mark>
MarkClose == <<"<","/","m","a","r","k",">">>

\* The body of computeWordDiff's for loop, over the change list from index k.
RECURSIVE WordDiffFrom(_, _, _)
WordDiffFrom(cs, k, acc) ==
    IF k > Len(cs) THEN acc
    ELSE LET change == cs[k]
             escaped == escapeHtml(change.value)
         IN  IF change.removed
             THEN WordDiffFrom(cs, k + 1,
                    [acc EXCEPT !.left = @ \o MarkDeleteOpen \o escaped \o MarkClose])
             ELSE IF change.added
             THEN WordDiffFrom(cs, k + 1,
                    [acc EXCEPT !.right = @ \o MarkAddOpen \o escaped \o MarkClose])
             ELSE WordDiffFrom(cs, k + 1,
                    [left |-> acc.left \o escaped, right |-> acc.right \o escaped])

\* A variant of the loop body without the `else if (change.added)` branch:
\* an added segment falls through to the unchanged case.
RECURSIVE WordDiffFromNoAddedBranch(_, _, _)
WordDiffFromNoAddedBranch(cs, k, acc) ==
    IF k > Len(cs) THEN acc
    ELSE LET change == cs[k]
             escaped == escapeHtml(change.value)
         IN  IF change.removed
             THEN WordDiffFromNoAddedBranch(cs, k + 1,
                    [acc EXCEPT !.left = @ \o MarkDeleteOpen \o escaped \o MarkClose])
             ELSE WordDiffFromNoAddedBranch(cs, k + 1,
                    [left |-> acc.left \o escaped, right |-> acc.right \o escaped])

computeWordDiffOf_NoAddedBranch(cs) ==
    WordDiffFromNoAddedBranch(cs, 1, [left |-> <<>>, right |-> <<>>])

\* computeWordDiff with the list diffWords returned made explicit.
computeWordDiffOf(cs) == WordDiffFrom(cs, 1, [left |-> <<>>, right |-> <<>>])

\* computeWordDiff(oldLine, newLine), with one of diffWords' results.
computeWordDiff(o, n) ==
    computeWordDiffOf(CHOOSE cs \in diffWords(o, n) : TRUE)

(***************************************************************************)
(* computePairedLines and computeUnifiedLines.  Indices are 0-based as in  *)
(* the code; lines[k] of the code is At(lines, k).  An optional field that *)
(* the code leaves out or sets to undefined is absent from the record.     *)
(***************************************************************************)
InRange(lines, k) == k >= 0 /\ k < Len(lines)
At(lines, k) == lines[k + 1]
\* lines[k] || ''
AtOrEmpty(lines, k) == IF InRange(lines, k) THEN At(lines, k) ELSE <<>>

EmptyLine == [type |-> "empty", content |-> <<>>]

\* A variant of the branch that pads by the old count on both sides: the new
\* line is taken while j < count instead of j < addCount.
PairedRow_PadsByOldCount(beforeLines, afterLines, oldIdx, newIdx, count, addCount, j) ==
    LET oldDef == j < count /\ InRange(beforeLines, oldIdx + j)
        newDef == j < count /\ InRange(afterLines, newIdx + j)
    IN  [left |->
            IF oldDef
            THEN [type |-> "delete", content |-> At(beforeLines, oldIdx + j),
                  lineNo |-> oldIdx + j + 1]
            ELSE EmptyLine,
         right |->
            IF newDef
            THEN [type |-> "add", content |-> At(afterLines, newIdx + j),
                  lineNo |-> newIdx + j + 1]
            ELSE EmptyLine]

\* A variant of the branch that never computes the word-level highlight.
PairedRow_NoHighlight(beforeLines, afterLines, oldIdx, newIdx, count, addCount, j) ==
    LET oldDef == j < count /\ InRange(beforeLines, oldIdx + j)
        newDef == j < addCount /\ InRange(afterLines, newIdx + j)
    IN  [left |->
            IF oldDef
            THEN [type |-> "delete", content |-> At(beforeLines, oldIdx + j),
                  lineNo |-> oldIdx + j + 1]
            ELSE EmptyLine,
         right |->
            IF newDef
            THEN [type |-> "add", content |-> At(afterLines, newIdx + j),
                  lineNo |-> newIdx + j + 1]
            ELSE EmptyLine]

\* One row of the removed-then-added branch (DiffModal.tsx 349-369).
PairedRow(beforeLines, afterLines, oldIdx, newIdx, count, addCount, j) ==
    LET oldDef == j < count /\ InRange(beforeLines, oldIdx + j)
        newDef == j < addCount /\ InRange(afterLines, newIdx + j)
    IN  [left |->
            IF oldDef
            THEN IF newDef
                 THEN [type |-> "delete", content |-> At(beforeLines, oldIdx + j),
                       lineNo |-> oldIdx + j + 1,
                       highlightedContent |->
                           computeWordDiff(At(beforeLines, oldIdx + j),
                                           At(afterLines, newIdx + j)).left]
                 ELSE [type |-> "delete", content |-> At(beforeLines, oldIdx + j),
                       lineNo |-> oldIdx + j + 1]
            ELSE EmptyLine,
         right |->
            IF newDef
            THEN IF oldDef
                 THEN [type |-> "add", content |-> At(afterLines, newIdx + j),
                       lineNo |-> newIdx + j + 1,
                       highlightedContent |->
                           computeWordDiff(At(beforeLines, oldIdx + j),
                                           At(afterLines, newIdx + j)).right]
                 ELSE [type |-> "add", content |-> At(afterLines, newIdx + j),
                       lineNo |-> newIdx + j + 1]
            ELSE EmptyLine]

\* A variant that indexes beforeLines by j alone, forgetting the old cursor.
RemovedRow_IgnoresCursor(beforeLines, oldIdx, j) ==
    [left |-> [type |-> "delete", content |-> AtOrEmpty(beforeLines, j),
               lineNo |-> oldIdx + j + 1],
     right |-> EmptyLine]

\* Rows of a removed change not followed by an added one (377-382).
RemovedRow(beforeLines, oldIdx, j) ==
    [left |-> [type |-> "delete", content |-> AtOrEmpty(beforeLines, oldIdx + j),
               lineNo |-> oldIdx + j + 1],
     right |-> EmptyLine]

\* A variant that shows the old line at the same offset beside the added one.
AddedRow_PairsOldLine(afterLines, newIdx, j) ==
    [left |-> [type |-> "delete", content |-> AtOrEmpty(afterLines, newIdx + j),
               lineNo |-> newIdx + j + 1],
     right |-> [type |-> "add", content |-> AtOrEmpty(afterLines, newIdx + j),
                lineNo |-> newIdx + j + 1]]

\* Rows of an added change (386-391).
AddedRow(afterLines, newIdx, j) ==
    [left |-> EmptyLine,
     right |-> [type |-> "add", content |-> AtOrEmpty(afterLines, newIdx + j),
                lineNo |-> newIdx + j + 1]]

\* A variant that numbers the lines from 0: lineNo is the index itself.
ContextRow_ZeroBased(beforeLines, afterLines, oldIdx, newIdx, j) ==
    [left |-> [type |-> "context", content |-> AtOrEmpty(beforeLines, oldIdx + j),
               lineNo |-> oldIdx + j],
     right |-> [type |-> "context", content |-> AtOrEmpty(afterLines, newIdx + j),
                lineNo |-> newIdx + j]]

\* Rows of an unchanged change (395-400).
ContextRow(beforeLines, afterLines, oldIdx, newIdx, j) ==
    [left |-> [type |-> "context", content |-> AtOrEmpty(beforeLines, oldIdx + j),
               lineNo |-> oldIdx + j + 1],
     right |-> [type |-> "context", content |-> AtOrEmpty(afterLines, newIdx + j),
                lineNo |-> newIdx + j + 1]]

\* The three kinds of line computeUnifiedLines pushes (425-450).
UnifiedDelete(beforeLines, oldIdx, j) ==
    [type |-> "delete", content |-> AtOrEmpty(beforeLines, oldIdx + j),
     oldLineNo |-> oldIdx + j + 1]

\* A variant of the add line that carries an old line number as well.
UnifiedAdd_WithOldNo(afterLines, newIdx, j) ==
    [type |-> "add", content |-> AtOrEmpty(afterLines, newIdx + j),
     oldLineNo |-> newIdx + j + 1, newLineNo |-> newIdx + j + 1]

UnifiedAdd(afterLines, newIdx, j) ==
    [type |-> "add", content |-> AtOrEmpty(afterLines, newIdx + j),
     newLineNo |-> newIdx + j + 1]

\* A variant that indexes afterLines by j alone, forgetting the new cursor.
UnifiedContext_IgnoresCursor(afterLines, oldIdx, newIdx, j) ==
    [type |-> "context", content |-> AtOrEmpty(afterLines, j),
     oldLineNo |-> oldIdx + j + 1, newLineNo |-> newIdx + j + 1]

UnifiedContext(afterLines, oldIdx, newIdx, j) ==
    [type |-> "context", content |-> AtOrEmpty(afterLines, newIdx + j),
     oldLineNo |-> oldIdx + j + 1, newLineNo |-> newIdx + j + 1]

\* A variant of the view that lays out rows even when there is none.
SplitDiffView_NoEmptyState(pairedLines) == "rows"

\* SplitDiffView (201-208) and UnifiedDiffView (275-282): "No changes" in
\* place of the rows when the list is empty.
SplitDiffView(pairedLines) == IF Len(pairedLines) = 0 THEN "No changes" ELSE "rows"

UnifiedDiffView(lines) == IF Len(lines) = 0 THEN "No changes" ELSE "rows"

\* The loop's locals at entry: oldIdx = newIdx = i = 0, result = [].
LoopStart == [i |-> 0, oldIdx |-> 0, newIdx |-> 0, result |-> <<>>]

beforeLines == Split(before)
afterLines == Split(after)
\* changes[i], and `count = change.count || 0`
Change(i) == changes[i + 1]
HasChange(i) == i >= 0 /\ i < Len(changes)

(***************************************************************************)
(* useSmoothStream (src/hooks/useSmoothStream.ts).  `hook` holds the state *)
(* displayIndex, the refs, and the host's queue of requested frame         *)
(* callbacks.  A handler runs with React's work that follows it: the       *)
(* render, the cleanups and bodies of the effects whose dependencies       *)
(* changed, and the re-render a setDisplayIndex call of an effect causes.  *)
(***************************************************************************)
CharDelay == 8        \* const { charDelay = 8 } = options
ResetWindow == 20     \* prevText.slice(0, Math.min(prevText.length, 20))
NoFrame == 0          \* frameRef.current === null

\* requestAnimationFrame(animate): a handle no pending or remembered request
\* has, queued in the host; frameRef.current = that handle.
requestAnimationFrame(h) ==
    LET id == CHOOSE n \in 1..(Cardinality(h.rafQueue) + 2) :
                  n \notin (h.rafQueue \cup {h.frameRef})
    IN  [h EXCEPT !.rafQueue = @ \cup {id}, !.frameRef = id]

\* if (frameRef.current) { cancelAnimationFrame(frameRef.current);
\*                         frameRef.current = null }
cancelFrame(h) ==
    IF h.frameRef # NoFrame
    THEN [h EXCEPT !.rafQueue = @ \ {h.frameRef}, !.frameRef = NoFrame]
    ELSE h

\* A variant of the check that compares the first character only.
IsNewContent_FirstCharOnly(prevText, ft) ==
    /\ Len(ft) > 0
    /\ Len(prevText) > 0
    /\ ~StartsWith(ft, SliceTo(prevText, Min(Len(prevText), 1)))

\* lines 66-68 and 71
IsNewContent(prevText, ft) ==
    /\ Len(ft) > 0
    /\ Len(prevText) > 0
    /\ ~StartsWith(ft, SliceTo(prevText, Min(Len(prevText), ResetWindow)))

IsNewConversation(prevText, ft) == Len(prevText) = 0 /\ Len(ft) > 0

\* A variant of the effect that shows a new conversation at once:
\* setDisplayIndex(fullText.length) in place of setDisplayIndex(0).
ContentResetEffect_ConversationShownAtOnce(h, ft, st) ==
    IF h.isFirstRenderRef
    THEN [h EXCEPT !.isFirstRenderRef = FALSE, !.prevTextRef = ft]
    ELSE LET prevText == h.prevTextRef
         IN  [h EXCEPT
                !.queued = IF IsNewContent(prevText, ft) THEN Append(@, Len(ft))
                           ELSE IF IsNewConversation(prevText, ft) /\ st
                           THEN Append(@, Len(ft))
                           ELSE @,
                !.prevTextRef = ft]

\* The content-reset effect (55-82).
ContentResetEffect(h, ft, st) ==
    IF h.isFirstRenderRef
    THEN [h EXCEPT !.isFirstRenderRef = FALSE, !.prevTextRef = ft]
    ELSE LET prevText == h.prevTextRef
         IN  [h EXCEPT
                !.queued = IF IsNewContent(prevText, ft) THEN Append(@, Len(ft))
                           ELSE IF IsNewConversation(prevText, ft) /\ st
                           THEN Append(@, 0)
                           ELSE @,
                !.prevTextRef = ft]

\* A variant of the effect that cancels the frame at the end of streaming
\* without setDisplayIndex(fullText.length).
StreamingEffect_NoSnap(h, ft, st) ==
    LET ended == h.wasStreamingRef /\ ~st
        h1 == IF ended THEN cancelFrame(h) ELSE h
    IN  [h1 EXCEPT !.wasStreamingRef = st]

\* The streaming-state effect (85-104).
StreamingEffect(h, ft, st) ==
    LET ended == h.wasStreamingRef /\ ~st
        h1 == IF ended THEN cancelFrame([h EXCEPT !.queued = Append(@, Len(ft))]) ELSE h
    IN  [h1 EXCEPT !.wasStreamingRef = st]

\* The animation effect's body (107-140); animate closes over
\* fullText.length of this render.
AnimationEffect(h, ft, st, t) ==
    IF ~st THEN h
    ELSE IF h.displayIndex >= Len(ft) THEN h
    ELSE requestAnimationFrame(
            [h EXCEPT !.lastTimeRef = IF @ = 0 THEN t ELSE @,
                      !.animateLen = Len(ft)])

\* A variant of the cleanup that forgets to cancel the requested frame.
AnimationCleanup_Missing(h) == h

\* The animation effect's cleanup (142-147).
AnimationCleanup(h) == cancelFrame(h)

\* React renders again when the queued setDisplayIndex calls (hook.queued, the
\* last one deciding) change the state; only the animation effect depends on
\* displayIndex.
ApplyQueued(h, ft, st, t) ==
    IF h.queued = <<>> \/ h.queued[Len(h.queued)] = h.displayIndex
    THEN [h EXCEPT !.queued = <<>>]
    ELSE AnimationEffect(
            AnimationCleanup([h EXCEPT !.displayIndex = h.queued[Len(h.queued)],
                                       !.queued = <<>>]),
            ft, st, t)

\* A render with new props: the cleanups of the effects whose dependencies
\* changed, then their bodies in order, then the re-render.
CommitProps(h, oldFt, oldSt, ft, st, t) ==
    LET e1 == ft # oldFt \/ st # oldSt
        e2 == st # oldSt \/ Len(ft) # Len(oldFt)
        e3 == Len(ft) # Len(oldFt) \/ st # oldSt
        h1 == IF e3 THEN AnimationCleanup(h) ELSE h
        h2 == IF e1 THEN ContentResetEffect(h1, ft, st) ELSE h1
        h3 == IF e2 THEN StreamingEffect(h2, ft, st) ELSE h2
        h4 == IF e3 THEN AnimationEffect(h3, ft, st, t) ELSE h3
    IN  ApplyQueued(h4, ft, st, t)

\* A variant of the first render with useState(0).
MountHook_FromZero(ft, st, t) ==
    LET h0 == [displayIndex |-> 0, frameRef |-> NoFrame, lastTimeRef |-> 0,
               wasStreamingRef |-> st, prevTextRef |-> ft, isFirstRenderRef |-> TRUE,
               rafQueue |-> {}, animateLen |-> 0, queued |-> <<>>]
        h1 == ContentResetEffect(h0, ft, st)
        h2 == StreamingEffect(h1, ft, st)
        h3 == AnimationEffect(h2, ft, st, t)
    IN  ApplyQueued(h3, ft, st, t)

\* The first render and its effects (41-52, then every effect).
MountHook(ft, st, t) ==
    LET h0 == [displayIndex |-> Len(ft), frameRef |-> NoFrame, lastTimeRef |-> 0,
               wasStreamingRef |-> st, prevTextRef |-> ft, isFirstRenderRef |-> TRUE,
               rafQueue |-> {}, animateLen |-> 0, queued |-> <<>>]
        h1 == ContentResetEffect(h0, ft, st)
        h2 == StreamingEffect(h1, ft, st)
        h3 == AnimationEffect(h2, ft, st, t)
    IN  ApplyQueued(h3, ft, st, t)

\* A variant of animate without Math.min(..., fullText.length).
animate_Unclamped(h, ft, st, time, isMounted) ==
    LET elapsed == time - h.lastTimeRef
        charsToAdd == Max(1, elapsed \div CharDelay)
        h1 == IF elapsed >= CharDelay
              THEN [h EXCEPT !.queued = Append(@, h.displayIndex + charsToAdd),
                             !.lastTimeRef = time]
              ELSE h
        h2 == requestAnimationFrame(h1)
    IN  IF isMounted THEN ApplyQueued(h2, ft, st, time)
        ELSE [h2 EXCEPT !.queued = <<>>]

\* A variant of the callback that advances without lastTimeRef.current = time.
animateCallback_KeepsLastTime(h, time) ==
    LET elapsed == time - h.lastTimeRef
        charsToAdd == Max(1, elapsed \div CharDelay)
        h1 == IF elapsed >= CharDelay
              THEN [h EXCEPT !.queued = Append(@, Min(h.displayIndex + charsToAdd,
                                                    h.animateLen))]
              ELSE h
    IN  requestAnimationFrame(h1)

\* The body of animate(time) (118-133): the update it queues, lastTimeRef,
\* and the frame it requests.
animateCallback(h, time) ==
    LET elapsed == time - h.lastTimeRef
        charsToAdd == Max(1, elapsed \div CharDelay)
        h1 == IF elapsed >= CharDelay
              THEN [h EXCEPT !.queued = Append(@, Min(h.displayIndex + charsToAdd,
                                                    h.animateLen)),
                             !.lastTimeRef = time]
              ELSE h
    IN  requestAnimationFrame(h1)

\* animate(time) (118-133), then the re-render its setDisplayIndex causes.
animate(h, ft, st, time, isMounted) ==
    LET h2 == animateCallback(h, time)
    IN  IF isMounted THEN ApplyQueued(h2, ft, st, time)
        ELSE [h2 EXCEPT !.queued = <<>>]

\* A variant of flush that cancels the frame and leaves displayIndex alone.
flush_KeepsIndex(h, ft, st, t, isMounted) == cancelFrame(h)

\* flush() (151-157), then the re-render.
flush(h, ft, st, t, isMounted) ==
    LET h1 == [cancelFrame(h) EXCEPT !.queued = Append(@, Len(ft))]
    IN  IF isMounted THEN ApplyQueued(h1, ft, st, t)
        ELSE [h1 EXCEPT !.queued = <<>>]

\* A variant of the render that slices the text whether streaming or not.
Render_AlwaysSliced(ft, st, displayIndex) ==
    [displayText |-> SliceTo(ft, displayIndex),
     isAnimating |-> st /\ displayIndex < Len(ft)]

\* What a render returns (161-168).
Render(ft, st, displayIndex) ==
    [displayText |-> IF st THEN SliceTo(ft, displayIndex) ELSE ft,
     isAnimating |-> st /\ displayIndex < Len(ft)]

\* The handler that ran last: its kind, whether it started while the hook
\* was animating, which branch of the content-reset effect it took, and the
\* instant from which the hook has been behind without advancing (0 while it
\* is not behind).
NoEvent ==
    [kind |-> "none", behind |-> FALSE, newContent |-> FALSE, newConversation |-> FALSE,
     behindFrom |-> 0]

\* The instant the time spent behind counts from, after a handler at time t:
\* t when the hook has just fallen behind or has just advanced, the earlier
\* instant while it stays behind without advancing.
BehindFrom(wasBehind, isBehind, advanced, t, earlier) ==
    IF ~isBehind THEN 0
    ELSE IF ~wasBehind \/ advanced THEN t
    ELSE earlier

(***************************************************************************)
(* The keybinding store (src/store/keybindingStore.ts).  Key strings are   *)
(* sequences of one-character strings, as all texts of this module.        *)
(***************************************************************************)
\* The character U+0060 (grave accent), which a string of this language
\* cannot hold
Grave == "grave"

\* The character U+00DF (sharp s), the key right of 0 on a German keyboard
SharpS == "sharp s"

LowerLetters == <<"a", "b", "c", "d", "e", "f", "g", "h", "i", "j", "k", "l", "m", "n", "o", "p", "q", "r", "s", "t", "u", "v", "w", "x", "y", "z">>
UpperLetters == <<"A", "B", "C", "D", "E", "F", "G", "H", "I", "J", "K", "L", "M", "N", "O", "P", "Q", "R", "S", "T", "U", "V", "W", "X", "Y", "Z">>
DigitChars == {"0", "1", "2", "3", "4", "5", "6", "7", "8", "9"}

\* String.prototype.toLowerCase / toUpperCase on the characters modelled
toLowerCase(s) ==
    [k \in DOMAIN s |->
        IF \E n \in DOMAIN UpperLetters : UpperLetters[n] = s[k]
        THEN LowerLetters[CHOOSE n \in DOMAIN UpperLetters : UpperLetters[n] = s[k]]
        ELSE s[k]]

\* toUpperCase maps the sharp s to two characters
toUpperCase(s) ==
    Concat([k \in DOMAIN s |->
        IF \E n \in DOMAIN LowerLetters : LowerLetters[n] = s[k]
        THEN <<UpperLetters[CHOOSE n \in DOMAIN LowerLetters : LowerLetters[n] = s[k]]>>
        ELSE IF s[k] = SharpS THEN <<"S", "S">>
        ELSE <<s[k]>>])

\* String.prototype.includes / indexOf for a one-character needle (1-based)
includes(s, c) == \E k \in DOMAIN s : s[k] = c
indexOf(s, c) == CHOOSE k \in DOMAIN s : s[k] = c /\ \A n \in 1..(k - 1) : s[n] # c

\* Array.prototype.join
RECURSIVE join(_, _)
join(parts, sep) ==
    IF parts = <<>> THEN <<>>
    ELSE IF Len(parts) = 1 THEN parts[1]
    ELSE parts[1] \o sep \o join(Tail(parts), sep)

\* const aliases (lines 103-136), as pairs <<alias, key name>>
aliases == {
    <<<<"e", "s", "c">>, <<"e", "s", "c", "a", "p", "e">>>>,
    <<<<"r", "e", "t", "u", "r", "n">>, <<"e", "n", "t", "e", "r">>>>,
    <<<<"s", "p", "a", "c", "e">>, <<" ">>>>,
    <<<<"s", "p", "a", "c", "e", "b", "a", "r">>, <<" ">>>>,
    <<<<"u", "p">>, <<"a", "r", "r", "o", "w", "u", "p">>>>,
    <<<<"d", "o", "w", "n">>, <<"a", "r", "r", "o", "w", "d", "o", "w", "n">>>>,
    <<<<"l", "e", "f", "t">>, <<"a", "r", "r", "o", "w", "l", "e", "f", "t">>>>,
    <<<<"r", "i", "g", "h", "t">>, <<"a", "r", "r", "o", "w", "r", "i", "g", "h", "t">>>>,
    <<<<"d", "e", "l">>, <<"d", "e", "l", "e", "t", "e">>>>,
    <<<<"i", "n", "s">>, <<"i", "n", "s", "e", "r", "t">>>>,
    <<<<"p", "g", "u", "p">>, <<"p", "a", "g", "e", "u", "p">>>>,
    <<<<"p", "g", "d", "n">>, <<"p", "a", "g", "e", "d", "o", "w", "n">>>>,
    <<<<"p", "g", "d", "o", "w", "n">>, <<"p", "a", "g", "e", "d", "o", "w", "n">>>>,
    <<<<"b", "a", "c", "k", "q", "u", "o", "t", "e">>, <<Grave>>>>,
    <<<<"b", "a", "c", "k", "t", "i", "c", "k">>, <<Grave>>>>,
    <<<<"c", "o", "m", "m", "a">>, <<",">>>>,
    <<<<"p", "e", "r", "i", "o", "d">>, <<".">>>>,
    <<<<"d", "o", "t">>, <<".">>>>,
    <<<<"s", "l", "a", "s", "h">>, <<"/">>>>,
    <<<<"b", "a", "c", "k", "s", "l", "a", "s", "h">>, <<"\\">>>>,
    <<<<"m", "i", "n", "u", "s">>, <<"-">>>>,
    <<<<"d", "a", "s", "h">>, <<"-">>>>,
    <<<<"e", "q", "u", "a", "l">>, <<"=">>>>,
    <<<<"e", "q", "u", "a", "l", "s">>, <<"=">>>>,
    <<<<"p", "l", "u", "s">>, <<"+">>>>,
    <<<<"s", "e", "m", "i", "c", "o", "l", "o", "n">>, <<";">>>>,
    <<<<"q", "u", "o", "t", "e">>, <<"'">>>>,
    <<<<"s", "i", "n", "g", "l", "e", "q", "u", "o", "t", "e">>, <<"'">>>>,
    <<<<"d", "o", "u", "b", "l", "e", "q", "u", "o", "t", "e">>, <<"\"">>>>,
    <<<<"b", "r", "a", "c", "k", "e", "t", "l", "e", "f", "t">>, <<"[">>>>,
    <<<<"b", "r", "a", "c", "k", "e", "t", "r", "i", "g", "h", "t">>, <<"]">>>>}

normalizeKeyName(key) ==
    LET keyLower == toLowerCase(key)
    IN IF \E p \in aliases : p[1] = keyLower
       THEN (CHOOSE p \in aliases : p[1] = keyLower)[2]
       ELSE keyLower

\* const modifiers (line 152): the words after which a leading "+" is not
\* taken for the main key
modifiers == {<<"c", "t", "r", "l">>, <<"c", "o", "n", "t", "r", "o", "l">>, <<"a", "l", "t">>, <<"s", "h", "i", "f", "t">>, <<"m", "e", "t", "a">>, <<"c", "m", "d">>, <<"c", "o", "m", "m", "a", "n", "d">>, <<"w", "i", "n">>}

\* The while loop of parseKeybinding and the push after it (lines 154-174)
RECURSIVE KeyParts(_, _)
KeyParts(remaining, parts) ==
    IF ~includes(remaining, "+")
    THEN IF Len(remaining) > 0 THEN Append(parts, remaining) ELSE parts
    ELSE LET plusIndex == indexOf(remaining, "+")
             part == SubSeq(remaining, 1, plusIndex - 1)
             rest == SubSeq(remaining, plusIndex + 1, Len(remaining))
             \* remaining.substring(1).split('+')[0]
             firstSegment == IF includes(rest, "+")
                             THEN SubSeq(rest, 1, indexOf(rest, "+") - 1) ELSE rest
         IN IF Len(part) > 0 THEN KeyParts(rest, Append(parts, part))
            ELSE IF Len(remaining) = 1
                    \/ toLowerCase(firstSegment) \notin modifiers
                 THEN IF Len(rest) > 0 THEN parts \o <<<<"+">>, rest>>
                      ELSE Append(parts, <<"+">>)
                 ELSE KeyParts(rest, parts)

\* for (const part of parts) (lines 184-199)
RECURSIVE ApplyParts(_, _)
ApplyParts(parts, result) ==
    IF parts = <<>> THEN result
    ELSE LET lower == toLowerCase(Head(parts))
             next ==
                 IF lower \in {<<"c", "t", "r", "l">>, <<"c", "o", "n", "t", "r", "o", "l">>}
                 THEN [result EXCEPT !.ctrl = TRUE]
                 ELSE IF lower \in {<<"a", "l", "t">>, <<"o", "p", "t", "i", "o", "n">>}
                 THEN [result EXCEPT !.alt = TRUE]
                 ELSE IF lower = <<"s", "h", "i", "f", "t">>
                 THEN [result EXCEPT !.shift = TRUE]
                 ELSE IF lower \in {<<"m", "e", "t", "a">>, <<"c", "m", "d">>, <<"c", "o", "m", "m", "a", "n", "d">>, <<"w", "i", "n">>, <<"s", "u", "p", "e", "r">>}
                 THEN [result EXCEPT !.meta = TRUE]
                 ELSE [result EXCEPT !.key = normalizeKeyName(Head(parts))]
         IN ApplyParts(Tail(parts), next)

parseKeybinding(keyStr) ==
    ApplyParts(KeyParts(keyStr, <<>>),
               [key |-> <<>>, ctrl |-> FALSE, alt |-> FALSE, shift |-> FALSE,
                meta |-> FALSE])

keybindingToNormalizedString(parsed) ==
    join((IF parsed.ctrl THEN <<<<"c", "t", "r", "l">>>> ELSE <<>>)
         \o (IF parsed.alt THEN <<<<"a", "l", "t">>>> ELSE <<>>)
         \o (IF parsed.shift THEN <<<<"s", "h", "i", "f", "t">>>> ELSE <<>>)
         \o (IF parsed.meta THEN <<<<"m", "e", "t", "a">>>> ELSE <<>>)
         \o <<parsed.key>>, <<"+">>)

normalizeKeybindingString(keyStr) == keybindingToNormalizedString(parseKeybinding(keyStr))

\* the names formatKeybindingCompact writes in its own spelling (293-302)
CompactNames == {
    <<<<"a", "r", "r", "o", "w", "u", "p">>, <<"A", "r", "r", "o", "w", "U", "p">>>>,
    <<<<"a", "r", "r", "o", "w", "d", "o", "w", "n">>, <<"A", "r", "r", "o", "w", "D", "o", "w", "n">>>>,
    <<<<"a", "r", "r", "o", "w", "l", "e", "f", "t">>, <<"A", "r", "r", "o", "w", "L", "e", "f", "t">>>>,
    <<<<"a", "r", "r", "o", "w", "r", "i", "g", "h", "t">>, <<"A", "r", "r", "o", "w", "R", "i", "g", "h", "t">>>>,
    <<<<"b", "a", "c", "k", "s", "p", "a", "c", "e">>, <<"B", "a", "c", "k", "s", "p", "a", "c", "e">>>>,
    <<<<"e", "s", "c", "a", "p", "e">>, <<"E", "s", "c", "a", "p", "e">>>>,
    <<<<"e", "n", "t", "e", "r">>, <<"E", "n", "t", "e", "r">>>>,
    <<<<" ">>, <<"S", "p", "a", "c", "e">>>>,
    <<<<"d", "e", "l", "e", "t", "e">>, <<"D", "e", "l", "e", "t", "e">>>>,
    <<<<"t", "a", "b">>, <<"T", "a", "b">>>>}

formatKeybindingCompact(parsed) ==
    LET keyStr ==
            IF \E p \in CompactNames : p[1] = parsed.key
            THEN (CHOOSE p \in CompactNames : p[1] = parsed.key)[2]
            ELSE IF Len(parsed.key) = 1 THEN toUpperCase(parsed.key)
            ELSE IF /\ Len(parsed.key) \in {2, 3}     \* /^f\d{1,2}$/
                    /\ parsed.key[1] = "f"
                    /\ \A k \in 2..Len(parsed.key) : parsed.key[k] \in DigitChars
                 THEN toUpperCase(parsed.key)
            ELSE parsed.key
    IN join((IF parsed.ctrl THEN <<<<"C", "t", "r", "l">>>> ELSE <<>>)
            \o (IF parsed.alt THEN <<<<"A", "l", "t">>>> ELSE <<>>)
            \o (IF parsed.shift THEN <<<<"S", "h", "i", "f", "t">>>> ELSE <<>>)
            \o (IF parsed.meta THEN <<<<"M", "e", "t", "a">>>> ELSE <<>>)
            \o <<keyStr>>, <<"+">>)

\* e is a KeyboardEvent: key, ctrlKey, altKey, shiftKey, metaKey
keyEventToString(e) ==
    formatKeybindingCompact([key |-> normalizeKeyName(e.key), ctrl |-> e.ctrlKey,
                             alt |-> e.altKey, shift |-> e.shiftKey, meta |-> e.metaKey])

matchesKeybinding(e, keyStr) ==
    LET parsed == parseKeybinding(keyStr)
        eventKey == normalizeKeyName(e.key)
    IN /\ eventKey = parsed.key
       /\ e.ctrlKey = parsed.ctrl
       /\ e.altKey = parsed.alt
       /\ e.shiftKey = parsed.shift
       /\ e.metaKey = parsed.meta

\* DEFAULT_KEYBINDINGS (lines 68-95): the actions in the order of the array
ActionOrder == <<"openSettings", "openProject", "commandPalette", "toggleSidebar", "toggleRightPanel", "focusInput", "newSession", "archiveSession", "previousSession", "nextSession", "toggleTerminal", "newTerminal", "selectModel", "toggleAgent", "sendMessage", "cancelMessage", "copyLastResponse">>
Actions == {ActionOrder[k] : k \in DOMAIN ActionOrder}

DEFAULT_KEYBINDINGS ==
    [action \in Actions |->
        LET key ==
            IF action = "openSettings" THEN <<"A", "l", "t", "+", ",">>
            ELSE IF action = "openProject" THEN <<"A", "l", "t", "+", "O">>
            ELSE IF action = "commandPalette" THEN <<"C", "t", "r", "l", "+", "S", "h", "i", "f", "t", "+", "P">>
            ELSE IF action = "toggleSidebar" THEN <<"A", "l", "t", "+", "B">>
            ELSE IF action = "toggleRightPanel" THEN <<"A", "l", "t", "+", "\\">>
            ELSE IF action = "focusInput" THEN <<"A", "l", "t", "+", "I">>
            ELSE IF action = "newSession" THEN <<"A", "l", "t", "+", "N">>
            ELSE IF action = "archiveSession" THEN <<"A", "l", "t", "+", "B", "a", "c", "k", "s", "p", "a", "c", "e">>
            ELSE IF action = "previousSession" THEN <<"A", "l", "t", "+", "A", "r", "r", "o", "w", "U", "p">>
            ELSE IF action = "nextSession" THEN <<"A", "l", "t", "+", "A", "r", "r", "o", "w", "D", "o", "w", "n">>
            ELSE IF action = "toggleTerminal" THEN <<"A", "l", "t", "+", Grave>>
            ELSE IF action = "newTerminal" THEN <<"A", "l", "t", "+", "T">>
            ELSE IF action = "selectModel" THEN <<"A", "l", "t", "+", "M">>
            ELSE IF action = "toggleAgent" THEN <<"A", "l", "t", "+", ".">>
            ELSE IF action = "sendMessage" THEN <<"E", "n", "t", "e", "r">>
            ELSE IF action = "cancelMessage" THEN <<"E", "s", "c", "a", "p", "e">>
            ELSE <<"A", "l", "t", "+", "C">>
        IN [defaultKey |-> key, currentKey |-> key]]


\* JSON.stringify / JSON.parse of one string value: the value between double
\* quotes, with the double quote and the backslash escaped
RECURSIVE JSONEscape(_)
JSONEscape(s) ==
    IF s = <<>> THEN <<>>
    ELSE (IF Head(s) \in {"\"", "\\"} THEN <<"\\", Head(s)>> ELSE <<Head(s)>>)
         \o JSONEscape(Tail(s))

JSONStringify(s) == <<"\"">> \o JSONEscape(s) \o <<"\"">>

RECURSIVE JSONUnescape(_)
JSONUnescape(s) ==
    IF s = <<>> THEN <<>>
    ELSE IF Head(s) = "\\" /\ Len(s) > 1
         THEN <<s[2]>> \o JSONUnescape(SubSeq(s, 3, Len(s)))
         ELSE <<Head(s)>> \o JSONUnescape(Tail(s))

JSONParse(t) == JSONUnescape(SubSeq(t, 2, Len(t) - 1))

\* localStorage.getItem(STORAGE_KEY) === null: nothing was ever stored
NoItem == [present |-> FALSE, customKeys |-> <<>>]

\* loadFromStorage (371-389): the defaults, then each stored key that is truthy
loadFromStorage(item) ==
    [action \in Actions |->
        IF /\ item.present
           /\ action \in DOMAIN item.customKeys
           /\ JSONParse(item.customKeys[action]) # <<>>
        THEN [DEFAULT_KEYBINDINGS[action] EXCEPT
                  !.currentKey = JSONParse(item.customKeys[action])]
        ELSE DEFAULT_KEYBINDINGS[action]]

\* saveToStorage (391-404): only the keys that differ from the default
saveToStorage(kbs) ==
    [present |-> TRUE,
     customKeys |->
        [action \in {a \in Actions : kbs[a].currentKey # kbs[a].defaultKey} |->
            JSONStringify(kbs[action].currentKey)]]

isKeyUsed(kbs, keyStr, excludeAction) ==
    LET normalizedInput == normalizeKeybindingString(keyStr)
    IN \E a \in Actions :
        /\ normalizeKeybindingString(kbs[a].currentKey) = normalizedInput
        /\ a # excludeAction

\* KeybindingRow state (KeybindingsSection.tsx 50-52); error is '' or the text
NoRow == [isEditing |-> FALSE, action |-> "none", tempKey |-> <<>>, error |-> ""]

ModifierKeys == {<<"C", "o", "n", "t", "r", "o", "l">>, <<"A", "l", "t">>, <<"S", "h", "i", "f", "t">>, <<"M", "e", "t", "a">>}

\* handleKeyDown of the row (60-68): r is the row's state
rowHandleKeyDown(r, kbs, e) ==
    IF e.key \in ModifierKeys THEN r
    ELSE LET newKey == keyEventToString(e)
         IN [r EXCEPT !.tempKey = newKey,
                      !.error = IF isKeyUsed(kbs, newKey, r.action)
                                THEN "Already in use" ELSE ""]

\* The keydown event and what the handler reads of the document
NoKeyEvent ==
    [key |-> <<>>, ctrlKey |-> FALSE, altKey |-> FALSE, shiftKey |-> FALSE,
     metaKey |-> FALSE, isInput |-> FALSE, hasOpenDialog |-> FALSE,
     hasOpenDropdown |-> FALSE]

MessageActions == {"cancelMessage", "sendMessage"}

\* for (const kb of keybindings) of useGlobalKeybindings (useKeybindings.ts
\* 90-122), from the k-th keybinding on: the handlers called, in order
RECURSIVE handleKeyDownFrom_NoReturn(_, _, _, _)
handleKeyDownFrom_NoReturn(e, kbs, hs, k) ==
    IF k > Len(ActionOrder) THEN <<>>
    ELSE LET action == ActionOrder[k]
             hasModifier == e.altKey \/ e.ctrlKey \/ e.metaKey
             allowInInput == action \in MessageActions \/ hasModifier
             blockWhenDialogOpen == action \in MessageActions
             blockWhenDropdownOpen == action = "cancelMessage"
             continue == handleKeyDownFrom_NoReturn(e, kbs, hs, k + 1)
         IN IF ~matchesKeybinding(e, kbs[action].currentKey) THEN continue
            ELSE IF e.hasOpenDialog /\ blockWhenDialogOpen THEN continue
            ELSE IF e.hasOpenDropdown /\ blockWhenDropdownOpen THEN continue
            ELSE IF action \in hs /\ (~e.isInput \/ allowInInput)
                 THEN <<action>> \o continue
                 ELSE continue

RECURSIVE handleKeyDownFrom(_, _, _, _)
handleKeyDownFrom(e, kbs, hs, k) ==
    IF k > Len(ActionOrder) THEN <<>>
    ELSE LET action == ActionOrder[k]
             hasModifier == e.altKey \/ e.ctrlKey \/ e.metaKey
             allowInInput == action \in MessageActions \/ hasModifier
             blockWhenDialogOpen == action \in MessageActions
             blockWhenDropdownOpen == action = "cancelMessage"
             continue == handleKeyDownFrom(e, kbs, hs, k + 1)
         IN IF ~matchesKeybinding(e, kbs[action].currentKey) THEN continue
            ELSE IF e.hasOpenDialog /\ blockWhenDialogOpen THEN continue
            ELSE IF e.hasOpenDropdown /\ blockWhenDropdownOpen THEN continue
            ELSE IF action \in hs /\ (~e.isInput \/ allowInInput)
                 THEN <<action>>
                 ELSE continue

handleKeyDown_NoReturn(e, kbs, hs) == handleKeyDownFrom_NoReturn(e, kbs, hs, 1)
handleKeyDown(e, kbs, hs) == handleKeyDownFrom(e, kbs, hs, 1)

KeyIdle ==
    /\ keybindings = DEFAULT_KEYBINDINGS
    /\ kbSnapshot = DEFAULT_KEYBINDINGS
    /\ storage = NoItem
    /\ kbRow = NoRow
    /\ keyEvent = NoKeyEvent
    /\ handlers = {}
    /\ invoked = <<>>
    /\ matched = FALSE
    /\ keyOp = "none"

(***************************************************************************)
(* The layout store (src/store/layoutStore.ts) and its snapshot cache.     *)
(***************************************************************************)
DEFAULT_PANEL_WIDTH == 480
DEFAULT_PANEL_HEIGHT == 500
MIN_PANEL_WIDTH == 320
MIN_PANEL_HEIGHT == 300

\* null, for a string-valued field and for an object-valued one
Null == "null"
NoPanel == [null |-> TRUE]
NoSnapshot == [null |-> TRUE]

\* The listener subscribed at module load (169-171); the others are the
\* callbacks useSyncExternalStore passes to subscribe (180-184)
ClearCache == "clearCache"

Range(f) == {f[k] : k \in DOMAIN f}

\* A fresh object identity: one no object still referenced carries
NewId(used) == CHOOSE n \in 1..(Cardinality(used) + 1) : n \notin used

\* getSnapshot (157-166): the new value of cachedSnapshot, which is returned
getSnapshot(cache, panel, used) ==
    IF cache = NoSnapshot
    THEN [id |-> NewId(used), floatingPanel |-> panel,
          \* panel?.sessionId || null
          activeSubSessionId |->
              IF panel # NoPanel /\ panel.sessionId # "" THEN panel.sessionId ELSE Null]
    ELSE cache

\* One listener is called.  st holds cachedSnapshot, what each listener
\* called in this notify() has read (NoSnapshot for one called only in an
\* earlier notify), the listeners called so far, and the identities in use.
CallListener_KeepsCache(l, st, panel) ==
    IF l = ClearCache THEN st
    ELSE LET snap == getSnapshot(st.cache, panel, st.used)
         IN [cache |-> snap,
             seen |-> [x \in DOMAIN st.seen \cup {l} |->
                          IF x = l THEN snap ELSE st.seen[x]],
             notified |-> Append(st.notified, l),
             used |-> st.used \cup {snap.id}]

CallListener(l, st, panel) ==
    IF l = ClearCache THEN [st EXCEPT !.cache = NoSnapshot]
    ELSE LET snap == getSnapshot(st.cache, panel, st.used)
         IN [cache |-> snap,
             seen |-> [x \in DOMAIN st.seen \cup {l} |->
                          IF x = l THEN snap ELSE st.seen[x]],
             notified |-> Append(st.notified, l),
             used |-> st.used \cup {snap.id}]

\* notify (38-40): this.subscribers.forEach(fn => fn()), in insertion order
RECURSIVE notifyFrom(_, _, _)
notifyFrom(subs, st, panel) ==
    IF subs = <<>> THEN st
    ELSE notifyFrom(Tail(subs), CallListener(Head(subs), st, panel), panel)

notify(subs, cache, panel, seenBefore, used) ==
    notifyFrom(subs, [cache |-> cache,
                      seen |-> [l \in DOMAIN seenBefore |-> NoSnapshot],
                      notified |-> <<>>, used |-> used], panel)

NoLayoutOp == [kind |-> "none", notified |-> <<>>]

\* A desktop window and a phone in portrait
WindowSizes ==
    {[innerWidth |-> 1280, innerHeight |-> 800],
     [innerWidth |-> 390, innerHeight |-> 844]}

LayoutIdle ==
    /\ floatingPanel = NoPanel
    /\ subscribers = <<ClearCache>>
    /\ cachedSnapshot = NoSnapshot
    /\ window = [innerWidth |-> 1280, innerHeight |-> 800]
    /\ seen = [l \in {} |-> NoSnapshot]
    /\ lastRead = NoSnapshot
    /\ layoutOp = NoLayoutOp

StreamIdle ==
    /\ fullText = <<>>
    /\ isStreaming = FALSE
    /\ hook = MountHook(<<>>, FALSE, 1)
    /\ rendered = Render(<<>>, FALSE, 0)
    /\ mounted = FALSE
    /\ now = 1
    /\ lastEvent = NoEvent

(***************************************************************************)
(* The texts the diff viewer is given.                                     *)
(***************************************************************************)
Texts == SeqsUpTo(DiffAlphabet, MaxTextLen)

WordIdle ==
    /\ oldLine = <<>>
    /\ newLine = <<>>
    /\ wordChanges = <<>>
    /\ wordOut = [left |-> <<>>, right |-> <<>>]
    /\ wordPc = "none"

DiffIdle ==
    /\ before = <<>>
    /\ after = <<>>
    /\ changes = <<>>
    /\ fn = "none"
    /\ loop = LoopStart
    /\ pc = "done"
    /\ lastBranch = "none"

\* A call computePairedLines(before, after) or computeUnifiedLines(before,
\* after), stopped at the top of its loop.
InitDiff ==
    /\ before \in Texts
    /\ after \in Texts
    /\ changes \in diffLines(before, after)
    /\ fn \in {"paired", "unified"}
    /\ loop = LoopStart
    /\ pc = "run"
    /\ lastBranch = "none"
    /\ WordIdle
    /\ StreamIdle
    /\ KeyIdle
    /\ LayoutIdle

\* while (i < changes.length), change.removed, next && next.added (343-375)
PairedRemovedAdded ==
    /\ fn = "paired" /\ pc = "run" /\ HasChange(loop.i)
    /\ Change(loop.i).removed
    /\ HasChange(loop.i + 1) /\ Change(loop.i + 1).added
    /\ LET count == Change(loop.i).count
           addCount == Change(loop.i + 1).count
           maxCount == Max(count, addCount)
       IN  loop' = [i |-> loop.i + 2,
                    oldIdx |-> loop.oldIdx + count,
                    newIdx |-> loop.newIdx + addCount,
                    result |-> loop.result \o
                        [k \in 1..maxCount |->
                            PairedRow(beforeLines, afterLines, loop.oldIdx,
                                      loop.newIdx, count, addCount, k - 1)]]
    /\ lastBranch' = "removed-added"
    /\ UNCHANGED <<before, after, changes, fn, pc, wordVars, streamVars, storeVars>>

\* change.removed, not followed by an added change (377-384, 406)
PairedRemoved ==
    /\ fn = "paired" /\ pc = "run" /\ HasChange(loop.i)
    /\ Change(loop.i).removed
    /\ ~(HasChange(loop.i + 1) /\ Change(loop.i + 1).added)
    /\ LET count == Change(loop.i).count
       IN  loop' = [i |-> loop.i + 1,
                    oldIdx |-> loop.oldIdx + count,
                    newIdx |-> loop.newIdx,
                    result |-> loop.result \o
                        [k \in 1..count |->
                            RemovedRow(beforeLines, loop.oldIdx, k - 1)]]
    /\ lastBranch' = "removed"
    /\ UNCHANGED <<before, after, changes, fn, pc, wordVars, streamVars, storeVars>>

\* change.added (386-393, 406)
PairedAdded ==
    /\ fn = "paired" /\ pc = "run" /\ HasChange(loop.i)
    /\ ~Change(loop.i).removed /\ Change(loop.i).added
    /\ LET count == Change(loop.i).count
       IN  loop' = [i |-> loop.i + 1,
                    oldIdx |-> loop.oldIdx,
                    newIdx |-> loop.newIdx + count,
                    result |-> loop.result \o
                        [k \in 1..count |->
                            AddedRow(afterLines, loop.newIdx, k - 1)]]
    /\ lastBranch' = "added"
    /\ UNCHANGED <<before, after, changes, fn, pc, wordVars, streamVars, storeVars>>

\* unchanged change (394-406)
PairedContext ==
    /\ fn = "paired" /\ pc = "run" /\ HasChange(loop.i)
    /\ ~Change(loop.i).removed /\ ~Change(loop.i).added
    /\ LET count == Change(loop.i).count
       IN  loop' = [i |-> loop.i + 1,
                    oldIdx |-> loop.oldIdx + count,
                    newIdx |-> loop.newIdx + count,
                    result |-> loop.result \o
                        [k \in 1..count |->
                            ContextRow(beforeLines, afterLines, loop.oldIdx,
                                       loop.newIdx, k - 1)]]
    /\ lastBranch' = "context"
    /\ UNCHANGED <<before, after, changes, fn, pc, wordVars, streamVars, storeVars>>

\* for (const change of changes), change.removed (424-433)
UnifiedRemoved ==
    /\ fn = "unified" /\ pc = "run" /\ HasChange(loop.i)
    /\ Change(loop.i).removed
    /\ LET count == Change(loop.i).count
       IN  loop' = [i |-> loop.i + 1,
                    oldIdx |-> loop.oldIdx + count,
                    newIdx |-> loop.newIdx,
                    result |-> loop.result \o
                        [k \in 1..count |->
                            UnifiedDelete(beforeLines, loop.oldIdx, k - 1)]]
    /\ lastBranch' = "removed"
    /\ UNCHANGED <<before, after, changes, fn, pc, wordVars, streamVars, storeVars>>

\* change.added (434-442)
UnifiedAdded ==
    /\ fn = "unified" /\ pc = "run" /\ HasChange(loop.i)
    /\ ~Change(loop.i).removed /\ Change(loop.i).added
    /\ LET count == Change(loop.i).count
       IN  loop' = [i |-> loop.i + 1,
                    oldIdx |-> loop.oldIdx,
                    newIdx |-> loop.newIdx + count,
                    result |-> loop.result \o
                        [k \in 1..count |->
                            UnifiedAdd(afterLines, loop.newIdx, k - 1)]]
    /\ lastBranch' = "added"
    /\ UNCHANGED <<before, after, changes, fn, pc, wordVars, streamVars, storeVars>>

\* unchanged change (443-454)
UnifiedUnchanged ==
    /\ fn = "unified" /\ pc = "run" /\ HasChange(loop.i)
    /\ ~Change(loop.i).removed /\ ~Change(loop.i).added
    /\ LET count == Change(loop.i).count
       IN  loop' = [i |-> loop.i + 1,
                    oldIdx |-> loop.oldIdx + count,
                    newIdx |-> loop.newIdx + count,
                    result |-> loop.result \o
                        [k \in 1..count |->
                            UnifiedContext(afterLines, loop.oldIdx,
                                           loop.newIdx, k - 1)]]
    /\ lastBranch' = "context"
    /\ UNCHANGED <<before, after, changes, fn, pc, wordVars, streamVars, storeVars>>

\* the loop ends and the function returns result (408, 456)
ReturnResult ==
    /\ fn \in {"paired", "unified"} /\ pc = "run" /\ ~HasChange(loop.i)
    /\ pc' = "done"
    /\ UNCHANGED <<before, after, changes, fn, loop, lastBranch, wordVars, streamVars, storeVars>>

NextDiff ==
    \/ PairedRemovedAdded
    \/ PairedRemoved
    \/ PairedAdded
    \/ PairedContext
    \/ UnifiedRemoved
    \/ UnifiedAdded
    \/ UnifiedUnchanged
    \/ ReturnResult

SpecDiff == InitDiff /\ [][NextDiff]_vars

(***************************************************************************)
(* Claims about the diff viewer (checked under SpecDiff).                  *)
(***************************************************************************)

\* The lines of a text as the line diff counts them: the pieces between the
\* newlines, a final newline ending the last line instead of opening an empty
\* one (so the empty text has no line).
LinesOf(s) == [k \in 1..Len(LineTokens(s)) |-> Split(s)[k]]

Contents(ls) == [k \in 1..Len(ls) |-> ls[k].content]
SelectContents(ls, Keep(_)) == Contents(SelectSeq(ls, Keep))

NonEmptySide(l) == l.type # "empty"
HasOldNo(l) == "oldLineNo" \in DOMAIN l
HasNewNo(l) == "newLineNo" \in DOMAIN l

LeftColumn(rows) == [k \in 1..Len(rows) |-> rows[k].left]
RightColumn(rows) == [k \in 1..Len(rows) |-> rows[k].right]

PairedReturned == fn = "paired" /\ pc = "done"
UnifiedReturned == fn = "unified" /\ pc = "done"

\* C1: the non-empty left sides of the rows computePairedLines returns, in
\* row order, hold the lines of before, and the non-empty right sides the
\* lines of after.
C1_PairedReproducesTexts ==
    PairedReturned =>
        /\ SelectContents(LeftColumn(loop.result), NonEmptySide) = LinesOf(before)
        /\ SelectContents(RightColumn(loop.result), NonEmptySide) = LinesOf(after)

\* C1 witness: a returned pairing with a context row, a delete/add row and a
\* padded row, for a before text that ends in a newline.
C1_Witness ==
    /\ PairedReturned
    /\ before # <<>> /\ before[Len(before)] = NL
    /\ \E k \in DOMAIN loop.result : loop.result[k].left.type = "context"
    /\ \E k \in DOMAIN loop.result :
           loop.result[k].left.type = "delete" /\ loop.result[k].right.type = "add"
    /\ \E k \in DOMAIN loop.result : loop.result[k].left.type = "empty"

\* C2: the lines computeUnifiedLines emits that carry an old line number
\* hold, in order, the lines of before; those that carry a new line number
\* hold the lines of after.
C2_UnifiedReproducesTexts ==
    UnifiedReturned =>
        /\ SelectContents(loop.result, HasOldNo) = LinesOf(before)
        /\ SelectContents(loop.result, HasNewNo) = LinesOf(after)

\* C2 witness: a returned unified list with a context, a delete and an add
\* line.
C2_Witness ==
    /\ UnifiedReturned
    /\ \E k \in DOMAIN loop.result : loop.result[k].type = "context"
    /\ \E k \in DOMAIN loop.result : loop.result[k].type = "delete"
    /\ \E k \in DOMAIN loop.result : loop.result[k].type = "add"

AtPairedRemovedAdded ==
    /\ fn = "paired" /\ pc = "run" /\ HasChange(loop.i)
    /\ Change(loop.i).removed
    /\ HasChange(loop.i + 1) /\ Change(loop.i + 1).added

\* C10: in computePairedLines a removed change of r lines directly followed
\* by an added change of a lines appends exactly max(r, a) rows; row j has on
\* the left the old line oldIdx+j as a delete line if j < r and the empty
\* placeholder otherwise, on the right the new line newIdx+j as an add line
\* if j < a and the empty placeholder otherwise; the old cursor advances by
\* r, the new cursor by a, and the change cursor by two.
C10_PairedBranch ==
    [][AtPairedRemovedAdded =>
        LET r == Change(loop.i).count
            a == Change(loop.i + 1).count
            n == Len(loop.result)
        IN  /\ Len(loop'.result) = n + Max(r, a)
            /\ SubSeq(loop'.result, 1, n) = loop.result
            /\ \A j \in 0..(Max(r, a) - 1) :
                 LET row == loop'.result[n + j + 1]
                 IN  /\ IF j < r
                        THEN /\ row.left.type = "delete"
                             /\ row.left.content = Split(before)[loop.oldIdx + j + 1]
                        ELSE row.left = [type |-> "empty", content |-> <<>>]
                     /\ IF j < a
                        THEN /\ row.right.type = "add"
                             /\ row.right.content = Split(after)[loop.newIdx + j + 1]
                        ELSE row.right = [type |-> "empty", content |-> <<>>]
            /\ loop'.oldIdx = loop.oldIdx + r
            /\ loop'.newIdx = loop.newIdx + a
            /\ loop'.i = loop.i + 2]_vars

\* C10 witness: the branch has just run on changes of different sizes, after
\* an earlier change moved both cursors.
C10_Witness ==
    /\ fn = "paired" /\ lastBranch = "removed-added"
    /\ loop.i >= 3
    /\ Change(loop.i - 2).count # Change(loop.i - 1).count

\* The rows the step appends to result.
NewRows == SubSeq(loop'.result, Len(loop.result) + 1, Len(loop'.result))

AtPairedRemoved ==
    /\ fn = "paired" /\ pc = "run" /\ HasChange(loop.i)
    /\ Change(loop.i).removed
    /\ ~(HasChange(loop.i + 1) /\ Change(loop.i + 1).added)

AtPairedAdded ==
    /\ fn = "paired" /\ pc = "run" /\ HasChange(loop.i)
    /\ ~Change(loop.i).removed /\ Change(loop.i).added

\* C11: computePairedLines puts a delete line and an add line in one row only
\* in the step that handles a removed change directly followed by an added
\* one; a removed change not directly followed by an added one appends
\* exactly count rows, each a delete line beside the empty placeholder; an
\* added change the loop stands at is never directly preceded by a removed
\* one and appends exactly count rows, each the empty placeholder beside an
\* add line, also when a removed change follows it.
C11_OnlyAdjacentPairsAligned ==
    [][/\ (fn = "paired" /\ \E k \in DOMAIN NewRows :
                NewRows[k].left.type = "delete" /\ NewRows[k].right.type = "add")
            => AtPairedRemovedAdded
       /\ AtPairedRemoved =>
            /\ Len(NewRows) = Change(loop.i).count
            /\ \A k \in DOMAIN NewRows :
                 /\ NewRows[k].left.type = "delete"
                 /\ NewRows[k].right = [type |-> "empty", content |-> <<>>]
       /\ AtPairedAdded =>
            /\ ~(loop.i >= 1 /\ Change(loop.i - 1).removed)
            /\ Len(NewRows) = Change(loop.i).count
            /\ \A k \in DOMAIN NewRows :
                 /\ NewRows[k].left = [type |-> "empty", content |-> <<>>]
                 /\ NewRows[k].right.type = "add"]_vars

\* C11 witness: an added change has just been handled on its own and a
\* removed change follows it.
C11_Witness ==
    /\ fn = "paired" /\ pc = "run" /\ lastBranch = "added"
    /\ loop.result # <<>>
    /\ HasChange(loop.i) /\ Change(loop.i).removed

\* C12: for before = "" and after = "" computePairedLines returns no row and
\* computeUnifiedLines no line, and the views show the empty state.
C12_EmptyTextsNoRows ==
    (pc = "done" /\ before = <<>> /\ after = <<>>) =>
        /\ loop.result = <<>>
        /\ fn = "paired" => SplitDiffView(loop.result) = "No changes"
        /\ fn = "unified" => UnifiedDiffView(loop.result) = "No changes"

\* C12 witness: computePairedLines has returned for two empty texts, the
\* line diff having reported one change of no line.
C12_Witness ==
    /\ PairedReturned
    /\ before = <<>> /\ after = <<>>
    /\ changes = <<NoLineChange>>
    /\ lastBranch = "context"

(***************************************************************************)
(* The loops on any hunk list: the change list is not the line diff's own  *)
(* but any list of changes, whose counts may exceed the lines of the       *)
(* texts.                                                                  *)
(***************************************************************************)
\* The text of k lines "a", "b", "a", ... without a final newline.
HunkText(k) ==
    [c \in 1..(2 * k - 1) |->
        IF c % 2 = 0 THEN NL ELSE IF c % 4 = 1 THEN "a" ELSE "b"]

HunkTexts == {HunkText(k) : k \in 0..MaxHunkLines}

\* A change object; the loops read added, removed and count only.
Hunks ==
    {[added |-> ad, removed |-> rm, count |-> c, value |-> <<>>] :
        ad \in BOOLEAN, rm \in BOOLEAN, c \in 0..MaxHunkCount}

HunkLists == SeqsUpTo(Hunks, MaxHunks)

InitHunks ==
    /\ before \in HunkTexts
    /\ after \in HunkTexts
    /\ changes \in HunkLists
    /\ fn \in {"paired", "unified"}
    /\ loop = LoopStart
    /\ pc = "run"
    /\ lastBranch = "none"
    /\ WordIdle
    /\ StreamIdle
    /\ KeyIdle
    /\ LayoutIdle

SpecHunks == InitHunks /\ [][NextDiff]_vars

OutOfBounds(lines, k) == (k + 1) \notin DOMAIN lines

AtPairedContext ==
    /\ fn = "paired" /\ pc = "run" /\ HasChange(loop.i)
    /\ ~Change(loop.i).removed /\ ~Change(loop.i).added

AtUnified == fn = "unified" /\ pc = "run" /\ HasChange(loop.i)

\* C17: for any hunk list, also one whose counts exceed the lines of before
\* or after, every branch of computePairedLines and computeUnifiedLines
\* appends its rows, and for a line index that is out of bounds the line it
\* appends is of the hunk's own kind (delete, add, context) with the empty
\* string as its text; so too in the removed-then-added branch.
C17_OutOfBoundsEmptyText ==
    [][/\ AtPairedRemovedAdded =>
            LET r == Change(loop.i).count
                a == Change(loop.i + 1).count
            IN  /\ Len(NewRows) = Max(r, a)
                /\ \A j \in 0..(Max(r, a) - 1) :
                     /\ (j < r /\ OutOfBounds(Split(before), loop.oldIdx + j)) =>
                          /\ NewRows[j + 1].left.type = "delete"
                          /\ NewRows[j + 1].left.content = <<>>
                     /\ (j < a /\ OutOfBounds(Split(after), loop.newIdx + j)) =>
                          /\ NewRows[j + 1].right.type = "add"
                          /\ NewRows[j + 1].right.content = <<>>
       /\ AtPairedRemoved =>
            /\ Len(NewRows) = Change(loop.i).count
            /\ \A j \in 0..(Change(loop.i).count - 1) :
                 OutOfBounds(Split(before), loop.oldIdx + j) =>
                     /\ NewRows[j + 1].left.type = "delete"
                     /\ NewRows[j + 1].left.content = <<>>
       /\ AtPairedAdded =>
            /\ Len(NewRows) = Change(loop.i).count
            /\ \A j \in 0..(Change(loop.i).count - 1) :
                 OutOfBounds(Split(after), loop.newIdx + j) =>
                     /\ NewRows[j + 1].right.type = "add"
                     /\ NewRows[j + 1].right.content = <<>>
       /\ AtPairedContext =>
            /\ Len(NewRows) = Change(loop.i).count
            /\ \A j \in 0..(Change(loop.i).count - 1) :
                 /\ OutOfBounds(Split(before), loop.oldIdx + j) =>
                      /\ NewRows[j + 1].left.type = "context"
                      /\ NewRows[j + 1].left.content = <<>>
                 /\ OutOfBounds(Split(after), loop.newIdx + j) =>
                      /\ NewRows[j + 1].right.type = "context"
                      /\ NewRows[j + 1].right.content = <<>>
       /\ AtUnified =>
            /\ Len(NewRows) = Change(loop.i).count
            /\ \A j \in 0..(Change(loop.i).count - 1) :
                 IF Change(loop.i).removed
                 THEN OutOfBounds(Split(before), loop.oldIdx + j) =>
                          /\ NewRows[j + 1].type = "delete"
                          /\ NewRows[j + 1].content = <<>>
                 ELSE OutOfBounds(Split(after), loop.newIdx + j) =>
                          /\ NewRows[j + 1].type =
                               (IF Change(loop.i).added THEN "add" ELSE "context")
                          /\ NewRows[j + 1].content = <<>>]_vars

(***************************************************************************)
(* One call of computeWordDiff on its own.                                 *)
(***************************************************************************)
WordLines == SeqsUpTo(WordAlphabet, MaxLineLen)

InitWord ==
    /\ oldLine \in WordLines
    /\ newLine \in WordLines
    /\ wordChanges \in diffWords(oldLine, newLine)
    /\ wordOut = [left |-> <<>>, right |-> <<>>]
    /\ wordPc = "call"
    /\ DiffIdle
    /\ StreamIdle
    /\ KeyIdle
    /\ LayoutIdle

\* computeWordDiff(oldLine, newLine) runs to its return (459-479)
CallComputeWordDiff ==
    /\ wordPc = "call"
    /\ wordOut' = computeWordDiffOf(wordChanges)
    /\ wordPc' = "done"
    /\ UNCHANGED <<oldLine, newLine, wordChanges, diffVars, streamVars, storeVars>>

NextWord == CallComputeWordDiff

SpecWord == InitWord /\ [][NextWord]_vars

(***************************************************************************)
(* Claims about the word-level highlighter (checked under SpecWord).       *)
(***************************************************************************)

\* A marked-up string with every marker tag taken out.
RECURSIVE StripMarkers(_)
StripMarkers(s) ==
    IF s = <<>> THEN <<>>
    ELSE IF StartsWith(s, MarkDeleteOpen) THEN StripMarkers(Drop(s, Len(MarkDeleteOpen)))
    ELSE IF StartsWith(s, MarkAddOpen) THEN StripMarkers(Drop(s, Len(MarkAddOpen)))
    ELSE IF StartsWith(s, MarkClose) THEN StripMarkers(Drop(s, Len(MarkClose)))
    ELSE <<Head(s)>> \o StripMarkers(Tail(s))

\* The text the segments of one side spell: the values of the changes that
\* are not of the other side's kind, in order.
OldSideText(cs) == Concat([k \in 1..Len(cs) |-> IF cs[k].added THEN <<>> ELSE cs[k].value])
NewSideText(cs) == Concat([k \in 1..Len(cs) |-> IF cs[k].removed THEN <<>> ELSE cs[k].value])

\* C3 as stated: with the marker tags removed, the left output of
\* computeWordDiff is exactly oldLine and the right output exactly newLine.
C3_StrippedEqualsLines ==
    wordPc = "done" =>
        /\ StripMarkers(wordOut.left) = oldLine
        /\ StripMarkers(wordOut.right) = newLine

\* C3 amended: with the marker tags removed, the left output is the escaped
\* old line, escapeHtml(oldLine), segment by segment the escaped text of the
\* unchanged and removed segments, and the right output is the escaped new
\* line.
C3_StrippedEqualsEscapedLines ==
    wordPc = "done" =>
        /\ StripMarkers(wordOut.left) = escapeHtml(OldSideText(wordChanges))
        /\ StripMarkers(wordOut.right) = escapeHtml(NewSideText(wordChanges))
        /\ StripMarkers(wordOut.left) = escapeHtml(oldLine)
        /\ StripMarkers(wordOut.right) = escapeHtml(newLine)

\* C3 witness: a call returned for two different lines that hold '&' and
\* '<', with a removed, an added and an unchanged segment.
C3_Witness ==
    /\ wordPc = "done"
    /\ \E k \in DOMAIN oldLine : oldLine[k] = "&"
    /\ \E k \in DOMAIN newLine : newLine[k] = "<"
    /\ \E k \in DOMAIN wordChanges : wordChanges[k].removed
    /\ \E k \in DOMAIN wordChanges : wordChanges[k].added
    /\ \E k \in DOMAIN wordChanges : ~wordChanges[k].removed /\ ~wordChanges[k].added

(***************************************************************************)
(* One mounted instance of useSmoothStream and the events that reach it.   *)
(***************************************************************************)
StreamAlphabet == {"a", "b"}
\* A text of ResetWindow characters: the part the reset check compares.
LongPrefix == [k \in 1..ResetWindow |-> "a"]
StreamTexts ==
    SeqsUpTo(StreamAlphabet, MaxStreamLen)
    \cup {LongPrefix \o t : t \in SeqsUpTo(StreamAlphabet, MaxTailLen)}
\* Less than one character's delay, and exactly one.
TickSteps == {CharDelay \div 2, CharDelay}

\* The component is mounted with some fullText and isStreaming.
InitStream ==
    /\ fullText \in StreamTexts
    /\ isStreaming \in BOOLEAN
    /\ now = 1
    /\ mounted = TRUE
    /\ hook = MountHook(fullText, isStreaming, now)
    /\ rendered = Render(fullText, isStreaming, hook.displayIndex)
    /\ lastEvent = [NoEvent EXCEPT !.kind = "mount"]
    /\ DiffIdle
    /\ WordIdle
    /\ KeyIdle
    /\ LayoutIdle

\* The parent renders the component with other props.
SetProps(ft, st) ==
    /\ mounted
    /\ <<ft, st>> # <<fullText, isStreaming>>
    /\ fullText' = ft
    /\ isStreaming' = st
    /\ hook' = CommitProps(hook, fullText, isStreaming, ft, st, now)
    /\ rendered' = Render(ft, st, hook'.displayIndex)
    /\ lastEvent' =
         [kind |-> "props",
          behind |-> rendered.isAnimating,
          newContent |-> IsNewContent(hook.prevTextRef, ft),
          newConversation |-> /\ ~IsNewContent(hook.prevTextRef, ft)
                              /\ IsNewConversation(hook.prevTextRef, ft)
                              /\ st,
          behindFrom |-> BehindFrom(rendered.isAnimating, rendered'.isAnimating,
                                    FALSE, now, lastEvent.behindFrom)]
    /\ UNCHANGED <<mounted, now, diffVars, wordVars, storeVars>>

\* The host runs a requested frame callback.
Frame(id) ==
    /\ id \in hook.rafQueue
    /\ hook' = animate([hook EXCEPT !.rafQueue = @ \ {id}],
                       fullText, isStreaming, now, mounted)
    /\ rendered' = IF mounted THEN Render(fullText, isStreaming, hook'.displayIndex)
                   ELSE rendered
    /\ lastEvent' =
         [NoEvent EXCEPT
            !.kind = "frame", !.behind = rendered.isAnimating,
            !.behindFrom = BehindFrom(rendered.isAnimating, rendered'.isAnimating,
                                      hook'.displayIndex > hook.displayIndex,
                                      now, lastEvent.behindFrom)]
    /\ UNCHANGED <<fullText, isStreaming, mounted, now, diffVars, wordVars, storeVars>>

\* The component's user calls flush().
Flush ==
    /\ hook' = flush(hook, fullText, isStreaming, now, mounted)
    /\ rendered' = IF mounted THEN Render(fullText, isStreaming, hook'.displayIndex)
                   ELSE rendered
    /\ lastEvent' =
         [NoEvent EXCEPT
            !.kind = "flush", !.behind = rendered.isAnimating,
            !.behindFrom = BehindFrom(rendered.isAnimating, rendered'.isAnimating,
                                      FALSE, now, lastEvent.behindFrom)]
    /\ UNCHANGED <<fullText, isStreaming, mounted, now, diffVars, wordVars, storeVars>>

\* The component is unmounted: the animation effect's cleanup runs.
Unmount ==
    /\ mounted
    /\ mounted' = FALSE
    /\ hook' = AnimationCleanup(hook)
    /\ lastEvent' = [NoEvent EXCEPT !.kind = "unmount", !.behind = rendered.isAnimating]
    /\ UNCHANGED <<fullText, isStreaming, rendered, now, diffVars, wordVars, storeVars>>

\* Time passes.
Tick(d) ==
    /\ now + d <= MaxTime
    /\ now' = now + d
    /\ UNCHANGED <<fullText, isStreaming, hook, rendered, mounted, lastEvent,
                   diffVars, wordVars, storeVars>>

Next ==
    \/ \E ft \in StreamTexts, st \in BOOLEAN : SetProps(ft, st)
    \/ \E id \in hook.rafQueue : Frame(id)
    \/ Flush
    \/ Unmount
    \/ \E d \in TickSteps : Tick(d)

Spec == InitStream /\ [][Next]_vars

(***************************************************************************)
(* The reveal scenario: the hook is mounted streaming with an empty text,  *)
(* the text arrives, and from then on only frame callbacks reach the hook, *)
(* at most MaxFrameGap after the last advance.                             *)
(***************************************************************************)
\* The texts that arrive: one text of each length up to MaxRevealLen.
RevealTexts ==
    {[k \in 1..n |-> IF k % 2 = 1 THEN "a" ELSE "b"] : n \in 1..MaxRevealLen}

InitReveal ==
    /\ fullText = <<>>
    /\ isStreaming = TRUE
    /\ now = 1
    /\ mounted = TRUE
    /\ hook = MountHook(fullText, isStreaming, now)
    /\ rendered = Render(fullText, isStreaming, hook.displayIndex)
    /\ lastEvent = [NoEvent EXCEPT !.kind = "mount"]
    /\ DiffIdle
    /\ WordIdle
    /\ KeyIdle
    /\ LayoutIdle

\* fullText becomes a non-empty text while isStreaming stays true.
ArriveText(ft) ==
    /\ fullText = <<>>
    /\ ft # <<>>
    /\ SetProps(ft, TRUE)

\* Time passes, the host delivering a frame within MaxFrameGap.
RevealTick(d) ==
    /\ now + d <= hook.lastTimeRef + MaxFrameGap
    /\ now' = now + d
    /\ UNCHANGED <<fullText, isStreaming, hook, rendered, mounted, lastEvent,
                   diffVars, wordVars, storeVars>>

AnyFrame == \E id \in hook.rafQueue : Frame(id)
AnyRevealTick == \E d \in TickSteps : RevealTick(d)

NextReveal ==
    \/ \E ft \in RevealTexts : ArriveText(ft)
    \/ AnyFrame
    \/ AnyRevealTick

SpecReveal ==
    InitReveal /\ [][NextReveal]_vars /\ WF_vars(AnyFrame) /\ WF_vars(AnyRevealTick)

(***************************************************************************)
(* Claims about useSmoothStream.                                           *)
(***************************************************************************)
FirstChars(s, n) == [k \in 1..Min(n, Len(s)) |-> s[k]]

\* C4: in every reachable state the returned displayText is fullText when
\* isStreaming is false, whatever displayIndex is, and the first
\* displayIndex characters of fullText when isStreaming is true; the
\* returned isAnimating is true exactly when isStreaming is true and
\* displayIndex < fullText.length.
C4_OutputContract ==
    /\ ~isStreaming => rendered.displayText = fullText
    /\ isStreaming => rendered.displayText = FirstChars(fullText, hook.displayIndex)
    /\ rendered.isAnimating <=> (isStreaming /\ hook.displayIndex < Len(fullText))

\* C4 witness: not streaming, with displayIndex short of the text that grew
\* meanwhile, and the whole text displayed.
C4_Witness ==
    /\ mounted /\ lastEvent.kind = "props"
    /\ ~isStreaming
    /\ hook.displayIndex < Len(fullText)
    /\ rendered.displayText = fullText

\* C5: mounted with isStreaming = true and fullText = "", once fullText is a
\* non-empty text of length n and isStreaming stays true, displayIndex starts
\* at 0, never decreases and never exceeds n over the frame callbacks, and
\* with frame callbacks delivered and the clock advancing it reaches n.
C5_RevealReachesEnd ==
    /\ [][(\E ft \in RevealTexts : ArriveText(ft)) => hook'.displayIndex = 0]_vars
    /\ [][hook'.displayIndex >= hook.displayIndex]_vars
    /\ [](hook.displayIndex <= Len(fullText))
    /\ [](fullText # <<>> => <>(hook.displayIndex = Len(fullText)))

\* C5 witness: a text longer than any single catch-up step has been revealed
\* to its end by frame callbacks.
C5_Witness ==
    /\ Len(fullText) = MaxRevealLen
    /\ lastEvent.kind = "frame"
    /\ hook.displayIndex = Len(fullText)

\* C6: flush() called while isStreaming is true and displayIndex <
\* fullText.length cancels the pending frame callback and sets displayIndex
\* to fullText.length: right after it displayText is the whole fullText and
\* isAnimating is false.
C6_FlushMidAnimation ==
    [][(Flush /\ mounted /\ isStreaming /\ hook.displayIndex < Len(fullText)) =>
        /\ hook'.rafQueue = {}
        /\ hook'.frameRef = NoFrame
        /\ hook'.displayIndex = Len(fullText)
        /\ rendered'.displayText = fullText
        /\ ~rendered'.isAnimating]_vars

\* C6 witness: flush() has just run on a mounted hook that was animating,
\* with a frame callback pending.
C6_Witness ==
    /\ mounted /\ isStreaming
    /\ lastEvent.kind = "flush" /\ lastEvent.behind
    /\ Len(fullText) > 0

\* C7: in every reachable state displayIndex is an integer with
\* 0 <= displayIndex <= fullText.length.
C7_IndexWithinText ==
    /\ hook.displayIndex \in Int
    /\ 0 <= hook.displayIndex
    /\ hook.displayIndex <= Len(fullText)

\* C8: displayIndex decreases only in a step that is a detected content
\* reset or new-conversation start, or a flush(); in every other step it
\* does not decrease.
C8_BackwardOnlyOnResetOrFlush ==
    [][hook'.displayIndex < hook.displayIndex =>
        \/ Flush
        \/ /\ \E ft \in StreamTexts, st \in BOOLEAN : SetProps(ft, st)
           /\ lastEvent'.newContent \/ lastEvent'.newConversation]_vars

\* C9: at most one frame callback is pending at any time, it is the one
\* frameRef remembers, and none is pending after unmount, while isStreaming
\* is false or while displayIndex >= fullText.length; so none runs then.
C9_FramesCancelled ==
    /\ Cardinality(hook.rafQueue) <= 1
    /\ hook.rafQueue \subseteq {hook.frameRef}
    /\ hook.rafQueue # {} =>
          /\ mounted
          /\ isStreaming
          /\ hook.displayIndex < Len(fullText)

\* C9 witness: the component was unmounted while animating, a frame
\* callback having run before, and no callback is pending.
C9_Witness ==
    /\ ~mounted
    /\ lastEvent.kind = "unmount" /\ lastEvent.behind
    /\ hook.lastTimeRef > 1
    /\ hook.rafQueue = {}

\* C13: right after the hook is mounted, with any fullText and either value
\* of isStreaming, displayIndex is fullText.length, displayText is fullText,
\* isAnimating is false and no frame callback is requested.
C13_MountShowsAll ==
    lastEvent.kind = "mount" =>
        /\ hook.displayIndex = Len(fullText)
        /\ rendered.displayText = fullText
        /\ ~rendered.isAnimating
        /\ hook.rafQueue = {}
        /\ hook.frameRef = NoFrame

\* C13 witness: the hook has just been mounted streaming with a text longer
\* than the reset window.
C13_Witness ==
    /\ lastEvent.kind = "mount" /\ mounted
    /\ isStreaming
    /\ Len(fullText) > ResetWindow

\* C14: in a render after the first in which fullText changes from a
\* non-empty text to a non-empty text that does not start with the first
\* min(20, previous length) characters of the previous one, displayIndex
\* becomes the new fullText.length, the whole new text is displayed and
\* isAnimating is false, whatever isStreaming is.
C14_ContentResetSnaps ==
    [][(/\ mounted
        /\ fullText # <<>> /\ fullText' # <<>>
        /\ ~StartsWith(fullText', FirstChars(fullText, Min(ResetWindow, Len(fullText)))))
       => /\ hook'.displayIndex = Len(fullText')
          /\ rendered'.displayText = fullText'
          /\ ~rendered'.isAnimating
          /\ hook'.rafQueue = {}]_vars

\* C14 witness: a content reset has just been detected while the hook was
\* streaming and animating, the new text being longer than the old.
C14_Witness ==
    /\ lastEvent.kind = "props" /\ lastEvent.newContent /\ lastEvent.behind
    /\ isStreaming
    /\ Len(fullText) > ResetWindow

\* C15 as stated: in a render after the first in which fullText changes from
\* empty to non-empty, displayIndex becomes 0 when isStreaming is true and
\* keeps its value when isStreaming is false.
C15_NewConversationResets ==
    [][(mounted /\ fullText = <<>> /\ fullText' # <<>>) =>
        IF isStreaming'
        THEN hook'.displayIndex = 0
        ELSE hook'.displayIndex = hook.displayIndex]_vars

\* C15 amended: in such a render displayIndex becomes 0 and the animation
\* starts when isStreaming is true; when isStreaming is false displayIndex
\* keeps its value unless isStreaming was true in the render before, in
\* which case the end of streaming sets it to the new fullText.length.
C15_NewConversationResetsUnlessStreamingEnds ==
    [][(mounted /\ fullText = <<>> /\ fullText' # <<>>) =>
        IF isStreaming'
        THEN /\ hook'.displayIndex = 0
             /\ rendered'.isAnimating
             /\ hook'.rafQueue # {}
        ELSE IF isStreaming
        THEN hook'.displayIndex = Len(fullText')
        ELSE hook'.displayIndex = hook.displayIndex]_vars

\* C15 witness: a new conversation has just started: the text arrived while
\* streaming and nothing of it is displayed yet.
C15_Witness ==
    /\ lastEvent.kind = "props" /\ lastEvent.newConversation
    /\ isStreaming /\ Len(fullText) > 1
    /\ hook.displayIndex = 0
    /\ rendered.displayText = <<>>

\* C16: in a render in which isStreaming changes from true to false,
\* displayIndex becomes the fullText.length of that render and the pending
\* frame callback is cancelled, whatever displayIndex and fullText are.
C16_StreamingEndSnaps ==
    [][(mounted /\ isStreaming /\ ~isStreaming') =>
        /\ hook'.displayIndex = Len(fullText')
        /\ hook'.rafQueue = {}
        /\ hook'.frameRef = NoFrame]_vars

\* C16 witness: streaming has just ended while the hook was animating, with
\* part of the text still hidden a moment before.
C16_Witness ==
    /\ lastEvent.kind = "props" /\ lastEvent.behind
    /\ ~isStreaming
    /\ Len(fullText) > 1
    /\ hook.displayIndex = Len(fullText)

\* C18: when isStreaming changes from false to true and fullText stays the
\* same, whatever fullText updates came while isStreaming was false, the
\* displayed text is still the whole fullText.
C18_StreamingStartKeepsText ==
    [][(mounted /\ ~isStreaming /\ isStreaming' /\ fullText' = fullText) =>
        rendered'.displayText = fullText']_vars

\* C19: a frame callback at time t, with elapsed = t - lastTime: for
\* elapsed < charDelay displayIndex and lastTime keep their values; for
\* elapsed >= charDelay displayIndex becomes
\* min(displayIndex + max(1, floor(elapsed / charDelay)), fullText.length)
\* and lastTime becomes t; either way the callback requests exactly one new
\* frame callback, which is the one pending afterwards unless the text is
\* now revealed to its end.
C19_FrameArithmetic ==
    [][\A id \in hook.rafQueue : Frame(id) =>
        LET elapsed == now - hook.lastTimeRef
            before0 == [hook EXCEPT !.rafQueue = @ \ {id}]
            after0 == animateCallback(before0, now)
        IN  /\ elapsed < CharDelay =>
                /\ hook'.displayIndex = hook.displayIndex
                /\ hook'.lastTimeRef = hook.lastTimeRef
            /\ elapsed >= CharDelay =>
                /\ hook'.displayIndex =
                     Min(hook.displayIndex + Max(1, elapsed \div CharDelay),
                         Len(fullText))
                /\ hook'.lastTimeRef = now
            /\ Cardinality(after0.rafQueue \ before0.rafQueue) = 1
            /\ Cardinality(hook'.rafQueue) =
                 IF hook'.displayIndex < Len(fullText) THEN 1 ELSE 0]_vars

\* C19 witness: a frame callback has just revealed characters, three being
\* revealed of a longer text, and another callback is pending.
C19_Witness ==
    /\ lastEvent.kind = "frame" /\ mounted
    /\ hook.lastTimeRef = now
    /\ hook.displayIndex = 3
    /\ Len(fullText) > ResetWindow
    /\ hook.rafQueue # {}

\* C20: a frame callback reveals at most max(1, floor(d / charDelay))
\* characters, d being the time the hook has been behind since it last
\* advanced; the time it spent caught up does not count.
C20_RevealRateBounded ==
    [][\A id \in hook.rafQueue : Frame(id) =>
        hook'.displayIndex - hook.displayIndex
            <= Max(1, (now - lastEvent.behindFrom) \div CharDelay)]_vars

(***************************************************************************)
(* Line numbers, line shapes and highlights of the diff views (SpecDiff),  *)
(* escaping of the word-level highlighter (SpecWord).                      *)
(***************************************************************************)
HasLineNo(l) == "lineNo" \in DOMAIN l
HasHighlight(l) == "highlightedContent" \in DOMAIN l

\* C21: in the rows computePairedLines returns, the line numbers of the
\* non-empty left sides are 1, 2, ..., L in row order, L the number of lines
\* of before; those of the non-empty right sides are 1, 2, ..., R; an empty
\* placeholder carries no line number.
C21_PairedLineNumbers ==
    PairedReturned =>
        LET lefts == SelectSeq(LeftColumn(loop.result), NonEmptySide)
            rights == SelectSeq(RightColumn(loop.result), NonEmptySide)
        IN  /\ Len(lefts) = Len(LinesOf(before))
            /\ \A k \in DOMAIN lefts : HasLineNo(lefts[k]) /\ lefts[k].lineNo = k
            /\ Len(rights) = Len(LinesOf(after))
            /\ \A k \in DOMAIN rights : HasLineNo(rights[k]) /\ rights[k].lineNo = k
            /\ \A k \in DOMAIN loop.result :
                 /\ loop.result[k].left.type = "empty" => ~HasLineNo(loop.result[k].left)
                 /\ loop.result[k].right.type = "empty" => ~HasLineNo(loop.result[k].right)

\* C21 witness: a returned pairing in which a context row has different
\* numbers on its two sides, after a row with an empty placeholder.
C21_Witness ==
    /\ PairedReturned
    /\ \E k \in DOMAIN loop.result :
         /\ loop.result[k].left.type = "context"
         /\ loop.result[k].left.lineNo # loop.result[k].right.lineNo
    /\ \E k \in DOMAIN loop.result : loop.result[k].right.type = "empty"

\* The kind of line a change yields in the unified view, and the kinds of
\* the lines of a whole change list, one per line of every change.
KindOf(change) ==
    IF change.removed THEN "delete" ELSE IF change.added THEN "add" ELSE "context"

KindsOf(cs) == Concat([k \in 1..Len(cs) |-> [j \in 1..cs[k].count |-> KindOf(cs[k])]])

\* C22: computeUnifiedLines returns one line per line of every change, in
\* change order and of the change's kind, never of kind empty; a context
\* line carries an old and a new number, an add line only a new one, a
\* delete line only an old one; the old numbers, and the new numbers, over
\* the lines that carry them are 1, 2, 3, ...
C22_UnifiedLineShape ==
    UnifiedReturned =>
        LET olds == SelectSeq(loop.result, HasOldNo)
            news == SelectSeq(loop.result, HasNewNo)
        IN  /\ [k \in 1..Len(loop.result) |-> loop.result[k].type] = KindsOf(changes)
            /\ \A k \in DOMAIN loop.result :
                 LET l == loop.result[k]
                 IN  /\ l.type \in {"context", "add", "delete"}
                     /\ HasOldNo(l) <=> l.type \in {"context", "delete"}
                     /\ HasNewNo(l) <=> l.type \in {"context", "add"}
            /\ \A k \in DOMAIN olds : olds[k].oldLineNo = k
            /\ \A k \in DOMAIN news : news[k].newLineNo = k

\* C22 witness: a returned unified list in which a context line has
\* different old and new numbers and an add line follows a delete line.
C22_Witness ==
    /\ UnifiedReturned
    /\ \E k \in DOMAIN loop.result :
         /\ loop.result[k].type = "context"
         /\ loop.result[k].oldLineNo # loop.result[k].newLineNo
    /\ \E k \in 1..(Len(loop.result) - 1) :
         loop.result[k].type = "delete" /\ loop.result[k + 1].type = "add"

\* C23 as stated: a row computePairedLines returns carries a highlight, on
\* both sides and computed by computeWordDiff from the row's two lines,
\* exactly when both of its sides are non-empty; a row with an empty side
\* carries none.
C23_HighlightIffBothSides ==
    PairedReturned =>
        \A k \in DOMAIN loop.result :
            LET row == loop.result[k]
            IN  IF row.left.type # "empty" /\ row.right.type # "empty"
                THEN /\ HasHighlight(row.left) /\ HasHighlight(row.right)
                     /\ row.left.highlightedContent =
                          computeWordDiff(row.left.content, row.right.content).left
                     /\ row.right.highlightedContent =
                          computeWordDiff(row.left.content, row.right.content).right
                ELSE ~HasHighlight(row.left) /\ ~HasHighlight(row.right)

\* C23 amended: a row carries a highlight, on both sides and computed by
\* computeWordDiff from the row's two lines, exactly when it pairs a delete
\* line with an add line; a context row and a row with an empty side carry
\* none.  The highlight of a side spells the side's escaped line.
C23_HighlightIffDeleteBesideAdd ==
    PairedReturned =>
        \A k \in DOMAIN loop.result :
            LET row == loop.result[k]
            IN  IF row.left.type = "delete" /\ row.right.type = "add"
                THEN /\ HasHighlight(row.left) /\ HasHighlight(row.right)
                     /\ row.left.highlightedContent =
                          computeWordDiff(row.left.content, row.right.content).left
                     /\ row.right.highlightedContent =
                          computeWordDiff(row.left.content, row.right.content).right
                     /\ StripMarkers(row.left.highlightedContent)
                          = escapeHtml(row.left.content)
                     /\ StripMarkers(row.right.highlightedContent)
                          = escapeHtml(row.right.content)
                ELSE ~HasHighlight(row.left) /\ ~HasHighlight(row.right)

\* C23 witness: a returned pairing with a highlighted delete/add row whose
\* lines differ, a context row and a row with an empty side.
C23_Witness ==
    /\ PairedReturned
    /\ \E k \in DOMAIN loop.result :
         /\ HasHighlight(loop.result[k].left)
         /\ loop.result[k].left.content # <<>>
         /\ loop.result[k].right.content # <<>>
    /\ \E k \in DOMAIN loop.result : loop.result[k].right.type = "context"
    /\ \E k \in DOMAIN loop.result : loop.result[k].left.type = "empty"

\* The '&' at position k of s opens one of the entities escapeHtml writes.
OpensEntity(s, k) ==
    \E e \in {EscapeChar("&"), EscapeChar("<"), EscapeChar(">")} :
        StartsWith(Drop(s, k - 1), e)

\* s holds no raw '<' or '>' and no '&' outside an entity.
IsEscapedText(s) ==
    \A k \in DOMAIN s :
        /\ s[k] \notin {"<", ">"}
        /\ s[k] = "&" => OpensEntity(s, k)

\* C24: in both outputs of computeWordDiff every segment is escaped: apart
\* from the marker tags the function adds, the outputs hold no raw '<' or
\* '>', and every '&' opens '&amp;', '&lt;' or '&gt;'.
C24_SegmentsEscaped ==
    wordPc = "done" =>
        /\ IsEscapedText(StripMarkers(wordOut.left))
        /\ IsEscapedText(StripMarkers(wordOut.right))

\* C24 witness: a call returned whose old line holds '<' in a removed
\* segment and whose new line holds '>' in an added one.
C24_Witness ==
    /\ wordPc = "done"
    /\ \E k \in DOMAIN wordChanges :
         wordChanges[k].removed /\ \E c \in DOMAIN wordChanges[k].value :
                                       wordChanges[k].value[c] = "<"
    /\ \E k \in DOMAIN wordChanges :
         wordChanges[k].added /\ \E c \in DOMAIN wordChanges[k].value :
                                     wordChanges[k].value[c] = ">"

(***************************************************************************)
(* The keybinding store in use: one settings row, the reset buttons and    *)
(* the global keydown listener.                                            *)
(***************************************************************************)
Press(key, ctrl, alt, shift, meta) ==
    [NoKeyEvent EXCEPT !.key = key, !.ctrlKey = ctrl, !.altKey = alt,
                       !.shiftKey = shift, !.metaKey = meta]

KeyEnter == <<"E", "n", "t", "e", "r">>
KeyEscape == <<"E", "s", "c", "a", "p", "e">>

\* The rows the user edits, and the keys pressed while a row captures
RowActions == {"openProject", "toggleSidebar", "sendMessage"}

RowEvents ==
    {Press(<<"o">>, FALSE, TRUE, FALSE, FALSE),
     Press(<<"z">>, FALSE, TRUE, FALSE, FALSE),
     Press(KeyEnter, FALSE, FALSE, FALSE, FALSE),
     Press(KeyEscape, FALSE, FALSE, FALSE, FALSE),
     Press(<<"A", "l", "t">>, FALSE, TRUE, FALSE, FALSE)}

\* The keys pressed elsewhere, with what the global listener finds
GlobalEvents ==
    {[e EXCEPT !.isInput = inp, !.hasOpenDialog = dlg, !.hasOpenDropdown = drp] :
        e \in {Press(<<"o">>, FALSE, TRUE, FALSE, FALSE),
               Press(<<"z">>, FALSE, TRUE, FALSE, FALSE),
               Press(KeyEnter, FALSE, FALSE, FALSE, FALSE),
               Press(KeyEscape, FALSE, FALSE, FALSE, FALSE)},
        inp \in BOOLEAN, dlg \in BOOLEAN, drp \in BOOLEAN}

\* The `handlers` argument: a handler for every action, or none for one
HandlerSets == {Actions, Actions \ {"openProject"}}

\* new KeybindingStore() (361-364) when nothing is stored; no row is editing
InitKeys ==
    /\ storage = NoItem
    /\ keybindings = loadFromStorage(storage)
    /\ kbSnapshot = keybindings
    /\ kbRow = NoRow
    /\ keyEvent = NoKeyEvent
    /\ handlers \in HandlerSets
    /\ invoked = <<>>
    /\ matched = FALSE
    /\ keyOp = "none"
    /\ DiffIdle
    /\ WordIdle
    /\ StreamIdle
    /\ LayoutIdle

\* saveToStorage() and notify() at the end of each mutation: kbs is the
\* array after the assignment
Commit(kbs) ==
    /\ keybindings' = kbs
    /\ storage' = saveToStorage(kbs)
    /\ kbSnapshot' = kbs

\* onClick of the key button (KeybindingsSection.tsx 136)
StartEditing(action) ==
    /\ ~kbRow.isEditing
    /\ kbRow' = [isEditing |-> TRUE, action |-> action, tempKey |-> <<>>, error |-> ""]
    /\ keyEvent' = NoKeyEvent
    /\ invoked' = <<>>
    /\ keyOp' = "edit"
    /\ UNCHANGED <<keybindings, kbSnapshot, storage, handlers, matched,
                   diffVars, wordVars, streamVars, layoutVars>>

\* The row's capture listener (83-92) handles a keydown
RowKeyDown(e) ==
    /\ kbRow.isEditing
    /\ keyEvent' = e
    /\ invoked' = <<>>
    /\ IF e.key = KeyEscape
       THEN /\ kbRow' = NoRow
            /\ keyOp' = "cancel"
            /\ UNCHANGED <<keybindings, kbSnapshot, storage>>
       ELSE IF e.key = KeyEnter /\ kbRow.tempKey # <<>> /\ kbRow.error = ""
       THEN \* confirm (70-75): onEdit(config.action, tempKey)
            /\ Commit([keybindings EXCEPT ![kbRow.action].currentKey = kbRow.tempKey])
            /\ kbRow' = NoRow
            /\ keyOp' = "confirm"
       ELSE /\ kbRow' = rowHandleKeyDown(kbRow, keybindings, e)
            /\ keyOp' = IF e.key \in ModifierKeys THEN "ignored" ELSE "capture"
            /\ UNCHANGED <<keybindings, kbSnapshot, storage>>
    /\ UNCHANGED <<handlers, matched, diffVars, wordVars, streamVars, layoutVars>>

\* keybindingStore.setKeybinding(action, newKey) (482-490)
SetKeybinding(action, newKey) ==
    /\ Commit([keybindings EXCEPT ![action].currentKey = newKey])
    /\ keyOp' = "set"
    /\ keyEvent' = NoKeyEvent
    /\ invoked' = <<>>
    /\ UNCHANGED <<kbRow, handlers, matched, diffVars, wordVars, streamVars, layoutVars>>

\* keybindingStore.resetKeybinding(action) (495-503)
ResetKeybinding(action) ==
    /\ Commit([keybindings EXCEPT ![action].currentKey = keybindings[action].defaultKey])
    /\ keyOp' = "reset"
    /\ keyEvent' = NoKeyEvent
    /\ invoked' = <<>>
    /\ UNCHANGED <<kbRow, handlers, matched, diffVars, wordVars, streamVars, layoutVars>>

\* keybindingStore.resetAll() (508-514)
ResetAll ==
    /\ Commit([a \in Actions |->
                 [keybindings[a] EXCEPT !.currentKey = keybindings[a].defaultKey]])
    /\ keyOp' = "resetAll"
    /\ keyEvent' = NoKeyEvent
    /\ invoked' = <<>>
    /\ UNCHANGED <<kbRow, handlers, matched, diffVars, wordVars, streamVars, layoutVars>>

\* The row's reset button (105-114), shown when the key is modified and the
\* row is not editing
ClickReset(action) ==
    /\ keybindings[action].currentKey # keybindings[action].defaultKey
    /\ ~(kbRow.isEditing /\ kbRow.action = action)
    /\ ResetKeybinding(action)

\* The "Reset all" button (197-204), shown when some key is modified
ClickResetAll ==
    /\ \E a \in Actions : keybindings[a].currentKey # keybindings[a].defaultKey
    /\ ResetAll

\* The listener of useGlobalKeybindings handles a keydown while no row
\* captures keys
GlobalKeyDown(e) ==
    /\ ~kbRow.isEditing
    /\ keyEvent' = e
    /\ invoked' = handleKeyDown(e, kbSnapshot, handlers)
    /\ keyOp' = "global"
    /\ UNCHANGED <<keybindings, kbSnapshot, storage, kbRow, handlers, matched,
                   diffVars, wordVars, streamVars, layoutVars>>

NextKeys ==
    \/ \E a \in RowActions : StartEditing(a)
    \/ \E e \in RowEvents : RowKeyDown(e)
    \/ \E a \in RowActions : ClickReset(a)
    \/ ClickResetAll
    \/ \E e \in GlobalEvents : GlobalKeyDown(e)

SpecKeys == InitKeys /\ [][NextKeys]_vars

\* The actions whose current key the last event matches
Matching == {a \in Actions : matchesKeybinding(keyEvent, kbSnapshot[a].currentKey)}

\* C25: a keydown handled by useGlobalKeybindings invokes at most one
\* handler, whatever the configuration; none for sendMessage or cancelMessage
\* while a dialog is open, none for cancelMessage while a dropdown is open;
\* and in an input, textarea or contenteditable element with none of Alt,
\* Ctrl, Meta held, none but those of sendMessage and cancelMessage.
C25_GlobalKeydownGuards ==
    keyOp = "global" =>
        /\ Len(invoked) <= 1
        /\ keyEvent.hasOpenDialog => \A k \in DOMAIN invoked : invoked[k] \notin MessageActions
        /\ keyEvent.hasOpenDropdown => \A k \in DOMAIN invoked : invoked[k] # "cancelMessage"
        /\ (keyEvent.isInput /\ ~(keyEvent.altKey \/ keyEvent.ctrlKey \/ keyEvent.metaKey))
              => \A k \in DOMAIN invoked : invoked[k] \in MessageActions

\* Two actions with handlers share the key pressed, the first in the array
\* is blocked by the open dialog, and the handler of the second is called.
C25_Witness ==
    /\ keyOp = "global"
    /\ Cardinality(Matching \cap handlers) >= 2
    /\ keyEvent.hasOpenDialog
    /\ "sendMessage" \in Matching
    /\ Len(invoked) = 1

\* C26: from the defaults, after any rebinds through the settings row,
\* resetKeybinding and resetAll calls, no two actions have current keys that
\* are equal after normalizeKeybindingString.
C26_NoSharedKey ==
    \A a \in Actions : \A b \in Actions :
        a # b => normalizeKeybindingString(keybindings[a].currentKey)
                 # normalizeKeybindingString(keybindings[b].currentKey)

(***************************************************************************)
(* The keybinding store called directly, and the page reloaded: a new      *)
(* store is constructed from what the last one persisted.                  *)
(***************************************************************************)
\* The keys given to setKeybinding: the empty string, keys no action has by
\* default, the default of toggleSidebar, a key that JSON must escape
StoreKeys ==
    {<<>>,
     <<"A", "l", "t", "+", "Z">>,
     <<"A", "l", "t", "+", "B">>,
     <<"C", "t", "r", "l", "+", "\"">>}

InitKeyStore ==
    /\ storage = NoItem
    /\ keybindings = loadFromStorage(storage)
    /\ kbSnapshot = keybindings
    /\ kbRow = NoRow
    /\ keyEvent = NoKeyEvent
    /\ handlers = {}
    /\ invoked = <<>>
    /\ matched = FALSE
    /\ keyOp = "none"
    /\ DiffIdle
    /\ WordIdle
    /\ StreamIdle
    /\ LayoutIdle

\* The page is loaded again: new KeybindingStore() (361-364) reads the item
Reload ==
    /\ keybindings' = loadFromStorage(storage)
    /\ kbSnapshot' = keybindings'
    /\ keyOp' = "reload"
    /\ UNCHANGED <<storage, kbRow, keyEvent, handlers, invoked, matched,
                   diffVars, wordVars, streamVars, layoutVars>>

NextKeyStore ==
    \/ \E a \in RowActions : \E k \in StoreKeys : SetKeybinding(a, k)
    \/ \E a \in RowActions : ResetKeybinding(a)
    \/ ResetAll
    \/ Reload

SpecKeyStore == InitKeyStore /\ [][NextKeyStore]_vars

\* The actions whose current key is not the default
Modified(kbs) == {a \in Actions : kbs[a].currentKey # kbs[a].defaultKey}

\* C27: after any setKeybinding, resetKeybinding and resetAll calls, a store
\* constructed from the persisted value has for every action the current key
\* of the store that wrote it; exactly the keys that differ from the default
\* are persisted, and after resetAll no custom key is.
C27_PersistenceRoundTrip ==
    [][/\ keyOp' = "reload" =>
            \A a \in Actions : keybindings'[a].currentKey = keybindings[a].currentKey
       /\ keyOp' \in {"set", "reset", "resetAll"} =>
            /\ storage'.present
            /\ DOMAIN storage'.customKeys = Modified(keybindings')
       /\ keyOp' = "resetAll" => DOMAIN storage'.customKeys = {}]_vars

(***************************************************************************)
(* A key is pressed in a capturing settings row, and the string recorded   *)
(* is then matched against the same event.                                 *)
(***************************************************************************)
\* Values of KeyboardEvent.key: letters, digits and punctuation, the space,
\* named keys, the names older browsers give, and modifier keys
EventKeys ==
    {<<"a">>,
     <<"A">>,
     <<"z">>,
     <<"1">>,
     <<"+">>,
     <<"-">>,
     <<",">>,
     <<".">>,
     <<"\\">>,
     <<"/">>,
     <<" ">>,
     <<"A", "r", "r", "o", "w", "U", "p">>,
     <<"A", "r", "r", "o", "w", "D", "o", "w", "n">>,
     <<"A", "r", "r", "o", "w", "L", "e", "f", "t">>,
     <<"A", "r", "r", "o", "w", "R", "i", "g", "h", "t">>,
     <<"E", "n", "t", "e", "r">>,
     <<"E", "s", "c", "a", "p", "e">>,
     <<"B", "a", "c", "k", "s", "p", "a", "c", "e">>,
     <<"D", "e", "l", "e", "t", "e">>,
     <<"T", "a", "b">>,
     <<"F", "1">>,
     <<"F", "1", "2">>,
     <<"P", "a", "g", "e", "U", "p">>,
     <<"H", "o", "m", "e">>,
     <<"E", "s", "c">>,
     <<"U", "p">>,
     <<"S", "p", "a", "c", "e", "b", "a", "r">>,
     <<"S", "u", "p", "e", "r">>,
     <<"C", "o", "n", "t", "r", "o", "l">>,
     <<"A", "l", "t">>,
     <<"S", "h", "i", "f", "t">>,
     <<"M", "e", "t", "a">>,
     <<Grave>>,
     <<SharpS>>}

AllKeyEvents ==
    {Press(k, c, a, s, m) :
        k \in EventKeys, c \in BOOLEAN, a \in BOOLEAN, s \in BOOLEAN, m \in BOOLEAN}

InitKeyEvent ==
    /\ storage = NoItem
    /\ keybindings = loadFromStorage(storage)
    /\ kbSnapshot = keybindings
    /\ kbRow \in {[NoRow EXCEPT !.isEditing = TRUE, !.action = a] : a \in RowActions}
    /\ keyEvent = NoKeyEvent
    /\ handlers = {}
    /\ invoked = <<>>
    /\ matched = FALSE
    /\ keyOp = "edit"
    /\ DiffIdle
    /\ WordIdle
    /\ StreamIdle
    /\ LayoutIdle

\* handleKeyDown of the row (60-68) records the key pressed
RecordKey(e) ==
    /\ keyOp = "edit"
    /\ keyEvent' = e
    /\ kbRow' = rowHandleKeyDown(kbRow, keybindings, e)
    /\ keyOp' = IF e.key \in ModifierKeys THEN "ignored" ELSE "capture"
    /\ UNCHANGED <<keybindings, kbSnapshot, storage, handlers, invoked, matched,
                   diffVars, wordVars, streamVars, layoutVars>>

\* matchesKeybinding(e, tempKey) for the event that was recorded
MatchRecorded ==
    /\ keyOp = "capture"
    /\ matched' = matchesKeybinding(keyEvent, kbRow.tempKey)
    /\ keyOp' = "match"
    /\ UNCHANGED <<keybindings, kbSnapshot, storage, kbRow, keyEvent, handlers,
                   invoked, diffVars, wordVars, streamVars, layoutVars>>

NextKeyEvent ==
    \/ \E e \in AllKeyEvents : RecordKey(e)
    \/ MatchRecorded

SpecKeyEvent == InitKeyEvent /\ [][NextKeyEvent]_vars

\* C29: for every keyboard event whose key is not Control, Alt, Shift or
\* Meta, whatever its ctrl/alt/shift/meta flags, the string recorded by
\* keyEventToString(e) matches the event: matchesKeybinding(e,
\* keyEventToString(e)) is true.
C29_RecordedKeyMatches ==
    keyOp = "match" => matched

(***************************************************************************)
(* The layout store in use: its actions, the window, React components      *)
(* subscribing through useLayoutStore and reading the snapshot.            *)
(***************************************************************************)
SessionIds == {"s1", ""}

\* The callbacks of two components that use useLayoutStore
Listeners == {"L1", "L2"}

\* Arguments of setSize and setPosition
SizeInputs == {<<200, 200>>, <<500, 400>>}
PositionInputs == {<<50, 60>>}

InitLayout ==
    /\ floatingPanel = NoPanel
    /\ subscribers = <<ClearCache>>
    /\ cachedSnapshot = NoSnapshot
    /\ window \in WindowSizes
    /\ seen = [l \in {} |-> NoSnapshot]
    /\ lastRead = NoSnapshot
    /\ layoutOp = NoLayoutOp
    /\ DiffIdle
    /\ WordIdle
    /\ StreamIdle
    /\ KeyIdle

\* The identities of the snapshot objects something still refers to
UsedIds ==
    {o.id : o \in {s \in {cachedSnapshot, lastRead} \cup Range(seen) : s # NoSnapshot}}

\* this.floatingPanel = panel; this.notify()
Mutate(panel) ==
    LET st == notify(subscribers, cachedSnapshot, panel, seen, UsedIds)
    IN /\ floatingPanel' = panel
       /\ cachedSnapshot' = st.cache
       /\ seen' = st.seen
       /\ lastRead' = IF st.notified = <<>> THEN NoSnapshot ELSE st.cache
       /\ layoutOp' = [kind |-> "action", notified |-> st.notified]
       /\ UNCHANGED <<subscribers, window, diffVars, wordVars, streamVars, keyVars>>

\* The early return of an action: nothing is assigned, nobody is notified
NoChange ==
    /\ layoutOp' = [kind |-> "action", notified |-> <<>>]
    /\ UNCHANGED <<floatingPanel, subscribers, cachedSnapshot, window, seen, lastRead,
                   diffVars, wordVars, streamVars, keyVars>>

OpenFloatingPanel(sessionId) ==
    IF floatingPanel # NoPanel /\ floatingPanel.sessionId = sessionId
    THEN NoChange
    ELSE Mutate([sessionId |-> sessionId,
                 x |-> Max(100, window.innerWidth - DEFAULT_PANEL_WIDTH - 40),
                 y |-> Max(100, window.innerHeight - DEFAULT_PANEL_HEIGHT - 80),
                 width |-> DEFAULT_PANEL_WIDTH,
                 height |-> DEFAULT_PANEL_HEIGHT,
                 isMinimized |-> FALSE])

CloseFloatingPanel ==
    IF floatingPanel = NoPanel THEN NoChange
    ELSE Mutate(NoPanel)

ToggleMinimize ==
    IF floatingPanel = NoPanel THEN NoChange
    ELSE Mutate([floatingPanel EXCEPT !.isMinimized = ~floatingPanel.isMinimized])

SetPosition(x, y) ==
    IF floatingPanel = NoPanel THEN NoChange
    ELSE Mutate([floatingPanel EXCEPT !.x = x, !.y = y])

SetSize(width, height) ==
    IF floatingPanel = NoPanel THEN NoChange
    ELSE Mutate([floatingPanel EXCEPT !.width = Max(MIN_PANEL_WIDTH, width),
                                      !.height = Max(MIN_PANEL_HEIGHT, height)])

\* expandedWidth and expandedHeight are even below the windows modelled, so
\* the halves are whole numbers
ExpandPanel ==
    IF floatingPanel = NoPanel THEN NoChange
    ELSE LET expandedWidth == Min(700, window.innerWidth - 100)
             expandedHeight == Min(600, window.innerHeight - 150)
         IN Mutate([floatingPanel EXCEPT
                        !.x = (window.innerWidth - expandedWidth) \div 2,
                        !.y = (window.innerHeight - expandedHeight) \div 2,
                        !.width = expandedWidth,
                        !.height = expandedHeight,
                        !.isMinimized = FALSE])

\* setActiveSubSessionId(id) (134-140): id is a session id or null
SetActiveSubSessionId(id) ==
    IF id # Null /\ id # "" THEN OpenFloatingPanel(id) ELSE CloseFloatingPanel

\* A component mounts: useSyncExternalStore subscribes its callback
Subscribe(l) ==
    /\ l \notin Range(subscribers)
    /\ subscribers' = Append(subscribers, l)
    /\ layoutOp' = [kind |-> "subscribe", notified |-> <<>>]
    /\ UNCHANGED <<floatingPanel, cachedSnapshot, window, seen, lastRead,
                   diffVars, wordVars, streamVars, keyVars>>

\* The function subscribe returned is called: this.subscribers.delete(fn)
Unsubscribe(l) ==
    /\ l \in Range(subscribers)
    /\ subscribers' = SelectSeq(subscribers, LAMBDA x : x # l)
    /\ layoutOp' = [kind |-> "subscribe", notified |-> <<>>]
    /\ UNCHANGED <<floatingPanel, cachedSnapshot, window, seen, lastRead,
                   diffVars, wordVars, streamVars, keyVars>>

\* A component renders: getSnapshot() is called from outside notify
GetSnapshot ==
    LET snap == getSnapshot(cachedSnapshot, floatingPanel, UsedIds)
    IN /\ cachedSnapshot' = snap
       /\ lastRead' = snap
       /\ layoutOp' = [kind |-> "getSnapshot", notified |-> <<>>]
       /\ UNCHANGED <<floatingPanel, subscribers, window, seen,
                      diffVars, wordVars, streamVars, keyVars>>

\* The browser window is resized
Resize(win) ==
    /\ win # window
    /\ window' = win
    /\ layoutOp' = [kind |-> "resize", notified |-> <<>>]
    /\ UNCHANGED <<floatingPanel, subscribers, cachedSnapshot, seen, lastRead,
                   diffVars, wordVars, streamVars, keyVars>>

NextLayout ==
    \/ \E id \in SessionIds : OpenFloatingPanel(id)
    \/ CloseFloatingPanel
    \/ ToggleMinimize
    \/ \E p \in PositionInputs : SetPosition(p[1], p[2])
    \/ \E sz \in SizeInputs : SetSize(sz[1], sz[2])
    \/ ExpandPanel
    \/ \E id \in SessionIds \cup {Null} : SetActiveSubSessionId(id)
    \/ \E l \in Listeners : Subscribe(l)
    \/ \E l \in Listeners : Unsubscribe(l)
    \/ GetSnapshot
    \/ \E win \in WindowSizes : Resize(win)

SpecLayout == InitLayout /\ [][NextLayout]_vars

\* C28: whenever a floating panel is open, after any openFloatingPanel,
\* setSize, setPosition, toggleMinimize and expandPanel calls under any
\* window size, its width is at least MIN_PANEL_WIDTH and its height at
\* least MIN_PANEL_HEIGHT.
C28_PanelAtLeastMinimum ==
    floatingPanel # NoPanel =>
        /\ floatingPanel.width >= MIN_PANEL_WIDTH
        /\ floatingPanel.height >= MIN_PANEL_HEIGHT

\* A snapshot shows the store as it is now: the panel, and the panel's
\* session id, null standing for no panel and for the empty id
IsCurrent(snap) ==
    /\ snap # NoSnapshot
    /\ snap.floatingPanel = floatingPanel
    /\ IF floatingPanel = NoPanel THEN snap.activeSubSessionId = Null
       ELSE IF floatingPanel.sessionId = "" THEN snap.activeSubSessionId = Null
       ELSE snap.activeSubSessionId = floatingPanel.sessionId

\* C30: two getSnapshot calls with no store mutation between them return the
\* identical object; every listener notified reads a snapshot whose
\* floatingPanel is the store's panel and whose activeSubSessionId is that
\* panel's session id (or null); a listener removed through the function
\* subscribe returned is not notified again.
C30_SnapshotCache ==
    [][/\ (layoutOp'.kind = "getSnapshot" /\ lastRead # NoSnapshot) => lastRead' = lastRead
       /\ \A k \in DOMAIN layoutOp'.notified : IsCurrent(seen[layoutOp.notified[k]])'
       /\ \A k \in DOMAIN layoutOp'.notified : layoutOp'.notified[k] \in Range(subscribers)]_vars

\* L1 was notified of an earlier change and then removed; the store changed
\* again, L2 was notified and read the new panel, L1 was not called; a
\* render then got the object L2 had read.
C30_Witness ==
    /\ layoutOp.kind = "getSnapshot"
    /\ "L1" \in DOMAIN seen
    /\ "L1" \notin Range(subscribers)
    /\ seen["L1"] = NoSnapshot
    /\ "L2" \in DOMAIN seen
    /\ seen["L2"] # NoSnapshot
    /\ seen["L2"].floatingPanel = floatingPanel
    /\ floatingPanel # NoPanel
    /\ lastRead = seen["L2"]

====
